---- MODULE Spec2Model ----
(***************************************************************************)
(* Recruitment platform backend: the credential store (Mongoose User       *)
(* model), the session issuer (jsonwebtoken sign / verify behind the       *)
(* authenticate middleware) and the profile endpoints.                     *)
(*                                                                         *)
(* Every HTTP request is one action: the middleware chain of its route     *)
(* followed by the controller, ending in the response that is sent.        *)
(* Time is the NumericDate clock jsonwebtoken reads, counted in days (the  *)
(* unit of JWT_EXPIRES_IN, '7d').                                          *)
(*                                                                         *)
(* Of the schema's paths the model keeps name, email, password,            *)
(* designation, currentCTC, expectedCTC, noticePeriod, noticePeriodDays    *)
(* and isEmailVerified.  The remaining required paths (firstName,          *)
(* lastName, country, phone, gender, dob, totalExperience) are handled by  *)
(* the code exactly like designation (required + one validator) and are    *)
(* taken to be supplied and valid; timestamps are not modelled.            *)
(*                                                                         *)
(* The frontend (authService over localStorage, the axios interceptors,    *)
(* AuthProvider and the useSessionTimeout hook) is modelled against a      *)
(* server that may answer anything; its async calls are split at their     *)
(* await into the step that sends the request and the step that takes the  *)
(* response.                                                               *)
(***************************************************************************)
EXTENDS Integers, Sequences, FiniteSets, TLC

VARIABLES
  users,    \* the User collection: _id -> stored document
  nextId,   \* the next _id the store hands out (ObjectIds are never reused)
  now,      \* the clock, in days
  held,     \* the token the observed client holds: {} or {token}
  registered, \* history: _id -> the password its registration request carried
  req,      \* the request being answered
  res,      \* the response sent for it
  since,    \* history: the kinds of call made since the held token was taken
  requestCounts, \* the rate limiter's Map: <<ip, window>> -> count, resetTime
  clock,    \* Date.now() of the rate limiter, in half windows (7.5 minutes)
  admitted, \* history: <<ip, route, clock>> -> requests let past the limiter
  pending,  \* register requests between their existence check and their save
  storage,  \* the browser's localStorage: authSession and authToken
  time,     \* Date.now() of the browser, in units of PROMPT_BEFORE (one hour)
  isValidatingSession, \* services/auth: a validation request is in flight
  lastValidationTime,  \* services/auth: when the last one was started
  pathname, \* window.location.pathname
  state,    \* AuthProvider: the reducer's state
  calls,    \* the async calls that wait for the server: id -> what they hold
  timeoutRef, \* per component: the forced-logout timer, the time it fires at
  promptRef,  \* per component: the warning timer, the time it fires at
  listeners,  \* per component: the document events it listens to
  mounted,    \* per component: "no", "yes", or "gone" after its teardown
  lastActivityRef, \* per component: the time of the last reset
  out       \* the last thing the client did that can be observed

\* the browser's storage, clock and location with the service's module state
browser == <<storage, time, isValidatingSession, lastValidationTime, pathname>>

\* the components' timers and listeners
timing == <<timeoutRef, promptRef, listeners, mounted, lastActivityRef>>

\* the frontend
client == <<browser, state, calls, timing, out>>

vars ==
  <<users, nextId, now, held, registered, req, res, since, requestCounts,
    clock, admitted, pending, client>>

\* the rate limiter's state with its clock and history
limiter == <<requestCounts, clock, admitted>>

----------------------------------------------------------------------------
(* Bounds of the model *)

MaxUsers == 2     \* _ids the store hands out
MaxTime == 8      \* days the clock runs
MaxClock == 2     \* half windows the rate limiter's clock runs
MaxAdmitted == 5  \* requests let past the rate limiter
MaxClientTime == 5 \* units the browser's clock runs

----------------------------------------------------------------------------
(* Configuration *)

JWT_SECRET == "your-secret-key"
\* process.env.JWT_EXPIRES_IN || '7d', in days
JWT_EXPIRES_IN == 7

----------------------------------------------------------------------------
(* Strings whose length or characters the code inspects are sequences of   *)
(* one-character strings.                                                  *)

Rep(c, n) == [i \in 1..n |-> c]

Min(a, b) == IF a < b THEN a ELSE b

UpperCase == {"A", "W", "N"}
LowerCase == {"a", "b", "c", "d", "e", "o", "p", "r", "s", "w", "x", "y", "z", "g", "n"}
Digits == {"1", "2", "3", "7", "8", "9"}
SpecialChars == {"@", "$", "!", "%", "*", "?", "&"}

ToLowerCase(s) ==
  [i \in 1..Len(s) |->
     CASE s[i] = "A" -> "a" [] s[i] = "W" -> "w" [] s[i] = "N" -> "n"
       [] OTHER -> s[i]]

\* the passwords clients use
Abcd123 == <<"A", "b", "c", "d", "1", "2", "3", "!">>
Wrong789 == <<"W", "r", "o", "n", "g", "7", "8", "9", "@">>
LongA == Abcd123 \o Rep("x", 64) \o <<"a">>
LongB == Abcd123 \o Rep("x", 64) \o <<"b">>
WeakPassword == <<"p", "a", "s", "s", "w", "o", "r", "d">>
EmptyString == << >>

\* names
AdaName == <<"A", "d", "a">>
NewName == <<"N", "e", "w">>
ShortName == <<"x">>
NameChars == UpperCase \cup LowerCase \cup {" ", "'", "-"}

----------------------------------------------------------------------------
(* Email addresses are opaque strings; validator.js isEmail and            *)
(* normalizeEmail are tabulated on the addresses the clients use.          *)

IsEmail(e) == e \in {"a@b.com", "A@B.com", "c@d.com"}

NormalizeEmail(e) == IF e = "A@B.com" THEN "a@b.com" ELSE e

----------------------------------------------------------------------------
(* bcryptjs.  The hash string embeds the salt; the key schedule reads the  *)
(* first 72 bytes of the password only.                                    *)

Salts == {"salt1"}

BcryptHash(password, salt) ==
  <<"$2a$12$", salt>> \o SubSeq(password, 1, Min(Len(password), 72))

BcryptCompare(candidate, hash) == BcryptHash(candidate, hash[2]) = hash

comparePassword_AlwaysTrue(user, candidatePassword) == TRUE

\* userSchema.methods.comparePassword
comparePassword(user, candidatePassword) ==
  BcryptCompare(candidatePassword, user.password)

----------------------------------------------------------------------------
(* Request bodies and documents are records; an absent field is a missing  *)
(* key.                                                                    *)

Has(r, f) == f \in DOMAIN r

Pick(r, fields) == [f \in (fields \cap DOMAIN r) |-> r[f]]

Idle == [route |-> "idle"]
NoResponse == [status |-> 0]

\* res.status(status).json({ success, message })
Json(status, success, message) ==
  [status |-> status, success |-> success, message |-> message]

----------------------------------------------------------------------------
(* express-validator chains of authController: the set of failing paths.   *)

NameOk(n) ==
  /\ Len(n) >= 2 /\ Len(n) <= 50
  /\ \A i \in 1..Len(n) : n[i] \in NameChars

StrongPassword(p) ==
  /\ \E i \in 1..Len(p) : p[i] \in UpperCase
  /\ \E i \in 1..Len(p) : p[i] \in LowerCase
  /\ \E i \in 1..Len(p) : p[i] \in Digits
  /\ \E i \in 1..Len(p) : p[i] \in SpecialChars

commonPasswords == {WeakPassword}

registerValidation(body) ==
  {f \in {"name"} : ~(Has(body, f) /\ NameOk(body.name))}
  \cup {f \in {"email"} : ~(Has(body, f) /\ IsEmail(body.email))}
  \cup {f \in {"password"} :
          ~(/\ Has(body, f)
            /\ Len(body.password) >= 8 /\ Len(body.password) <= 128
            /\ StrongPassword(body.password)
            /\ ToLowerCase(body.password) \notin commonPasswords)}

loginValidation(body) ==
  {f \in {"email"} : ~(Has(body, f) /\ IsEmail(body.email))}
  \cup {f \in {"password"} : ~(Has(body, f) /\ Len(body.password) >= 1)}

----------------------------------------------------------------------------
(* The User schema: document validation, run by save() before the          *)
(* pre('save') hook.  The set of failing paths.                            *)

Designations == {"Mr", "Mrs", "Ms", "Dr", "Prof"}
MaxCTC == 10000000
MaxNoticeDays == 365

RequiredPaths(doc) ==
  {"name", "email", "password", "designation", "currentCTC", "expectedCTC",
   "noticePeriod"}
  \cup (IF Has(doc, "noticePeriod") /\ doc.noticePeriod = "Yes"
        THEN {"noticePeriodDays"} ELSE {})

validateDocument(doc) ==
  {f \in RequiredPaths(doc) : ~Has(doc, f)}
  \cup {f \in {"name"} \cap DOMAIN doc : Len(doc.name) > 50}
  \cup {f \in {"email"} \cap DOMAIN doc : ~IsEmail(doc.email)}
  \cup {f \in {"password"} \cap DOMAIN doc :
          \/ Len(doc.password) < 8 \/ Len(doc.password) > 128
          \/ ~StrongPassword(doc.password)
          \/ ToLowerCase(doc.password) \in commonPasswords}
  \cup {f \in {"designation"} \cap DOMAIN doc : doc.designation \notin Designations}
  \cup {f \in {"currentCTC"} \cap DOMAIN doc :
          doc.currentCTC < 0 \/ doc.currentCTC > MaxCTC}
  \cup {f \in {"expectedCTC"} \cap DOMAIN doc :
          \/ doc.expectedCTC < 0 \/ doc.expectedCTC > MaxCTC
          \/ ~(Has(doc, "currentCTC") /\ doc.expectedCTC >= doc.currentCTC)}
  \cup {f \in {"noticePeriod"} \cap DOMAIN doc : doc.noticePeriod \notin {"Yes", "No"}}
  \cup {f \in {"noticePeriodDays"} \cap DOMAIN doc :
          doc.noticePeriodDays < 0 \/ doc.noticePeriodDays > MaxNoticeDays}

\* the paths new User({...}) is given by register, and the schema's setters
\* (email: lowercase) and defaults (isEmailVerified: false)
registerFields ==
  {"name", "email", "password", "designation", "currentCTC", "expectedCTC",
   "noticePeriod", "noticePeriodDays"}

LowerCaseEmail(e) == IF e = "A@B.com" THEN "a@b.com" ELSE e

NewUser(body) ==
  [f \in (registerFields \cap DOMAIN body) \cup {"isEmailVerified"} |->
     IF f = "isEmailVerified" THEN FALSE
     ELSE IF f = "email" THEN LowerCaseEmail(body.email)
     ELSE body[f]]

\* userSchema.pre('save'): a new document's password is modified, so hashed
PreSave(doc, salt) == [doc EXCEPT !.password = BcryptHash(doc.password, salt)]

FindByEmail_NoMatch(email) == {}

\* User.findOne({ email }): the _ids found (the query casts email through
\* the schema's lowercase setter)
FindByEmail(email) == {id \in DOMAIN users : users[id].email = LowerCaseEmail(email)}

\* the unique index on email: the insert of doc is refused (E11000)
DuplicateKey(doc) == \E id \in DOMAIN users : users[id].email = doc.email

WithId(doc, id) == [f \in DOMAIN doc \cup {"_id"} |-> IF f = "_id" THEN id ELSE doc[f]]

\* User.findById(id): the documents found, without the password path
\* (select: false) unless it is asked for
FindById(id) ==
  {Pick(WithId(users[i], i), (DOMAIN users[i] \cup {"_id"}) \ {"password"}) :
     i \in {id} \cap DOMAIN users}

----------------------------------------------------------------------------
(* jsonwebtoken *)

\* jwt.sign({ userId, email }, secret, { expiresIn })
JwtSign(id, email, secret, expiresIn) ==
  [kind |-> "jwt", userId |-> id, email |-> email, iat |-> now,
   exp |-> now + expiresIn, sig |-> secret]

JwtVerify_NoSignature(token, secret) ==
  /\ token.kind = "jwt"
  /\ ~(now >= token.exp)

JwtVerify_OffByOne(token, secret) ==
  /\ token.kind = "jwt"
  /\ token.sig = secret
  /\ ~(now > token.exp)

\* jwt.verify(token, secret) does not throw
JwtVerify(token, secret) ==
  /\ token.kind = "jwt"
  /\ token.sig = secret
  /\ ~(now >= token.exp)

\* The server keeps no token.  The model follows one client, which stores a
\* single token (authService: localStorage 'authToken'): the token sent is
\* stored in place of the old one, or the response went to another client.
Keep(token) == {held, {token}}

----------------------------------------------------------------------------
(* authController *)

authUserFields_WithPassword ==
  {"_id", "name", "email", "password", "designation", "currentCTC",
   "expectedCTC", "noticePeriod", "noticePeriodDays", "isEmailVerified"}

\* the user object register and login put in their response
authUserFields ==
  {"_id", "name", "email", "designation", "currentCTC", "expectedCTC",
   "noticePeriod", "noticePeriodDays", "isEmailVerified"}

\* the user object getMe puts in its response
meUserFields == {"_id", "name", "email", "isEmailVerified"}

\* a response that changes nothing
Reply(rq, rs) ==
  /\ req' = rq
  /\ res' = rs
  /\ UNCHANGED <<users, nextId, now, held, registered>>

\* POST /api/auth/register
register(body) ==
  LET errors == registerValidation(body)
      rq == [route |-> "POST /auth/register", body |-> body]
  IN  IF errors # {}
      THEN Reply(rq, Json(400, FALSE, "Validation failed") @@ [errors |-> errors])
      ELSE LET email == NormalizeEmail(body.email)
               sanitized == [body EXCEPT !.email = email]
           IN  IF FindByEmail(email) # {}
               THEN Reply(rq, Json(400, FALSE, "User with this email already exists"))
               ELSE IF \/ validateDocument(NewUser(sanitized)) # {}
                       \/ DuplicateKey(NewUser(sanitized))
               THEN Reply(rq, Json(500, FALSE, "Server error during registration"))
               ELSE \E salt \in Salts :
                      LET user == PreSave(NewUser(sanitized), salt)
                          token == JwtSign(nextId, user.email, JWT_SECRET, JWT_EXPIRES_IN)
                      IN  /\ nextId <= MaxUsers
                          /\ users' = (nextId :> user) @@ users
                          /\ registered' = (nextId :> body.password) @@ registered
                          /\ nextId' = nextId + 1
                          /\ held' \in Keep(token)
                          /\ req' = rq
                          /\ res' = Json(201, TRUE, "User registered successfully")
                                      @@ [user |-> Pick(WithId(user, nextId), authUserFields),
                                          token |-> token]
                          /\ UNCHANGED now

\* POST /api/auth/login
login(body) ==
  LET errors == loginValidation(body)
      rq == [route |-> "POST /auth/login", body |-> body]
  IN  IF errors # {}
      THEN Reply(rq, Json(400, FALSE, "Validation failed") @@ [errors |-> errors])
      ELSE LET found == FindByEmail(NormalizeEmail(body.email))
           IN  IF found = {}
               THEN Reply(rq, Json(401, FALSE, "Invalid email or password"))
               ELSE \E id \in found :
                      IF ~comparePassword(users[id], body.password)
                      THEN Reply(rq, Json(401, FALSE, "Invalid email or password"))
                      ELSE LET token == JwtSign(id, users[id].email, JWT_SECRET, JWT_EXPIRES_IN)
                           IN  /\ held' \in Keep(token)
                               /\ req' = rq
                               /\ res' = Json(200, TRUE, "Login successful")
                                           @@ [user |-> Pick(WithId(users[id], id), authUserFields),
                                               token |-> token]
                               /\ UNCHANGED <<users, nextId, now, registered>>

\* register as the event loop runs it: the handler yields at
\* `await User.findOne` and at `await user.save()`, and another request's
\* handler may run in between.  registerCheck is the handler of request r up
\* to the answer of findOne; registerSave is the rest of it.
InFlight == {"r1", "r2"}

registerCheck(r, body) ==
  LET errors == registerValidation(body)
      rq == [route |-> "POST /auth/register", body |-> body, request |-> r]
  IN  /\ r \notin DOMAIN pending
      /\ IF errors # {}
         THEN /\ Reply(rq, Json(400, FALSE, "Validation failed") @@ [errors |-> errors])
              /\ UNCHANGED pending
         ELSE IF FindByEmail(NormalizeEmail(body.email)) # {}
         THEN /\ Reply(rq, Json(400, FALSE, "User with this email already exists"))
              /\ UNCHANGED pending
         ELSE /\ Reply(rq, NoResponse)
              /\ pending' = (r :> body) @@ pending

registerSave(r) ==
  LET body == pending[r]
      rq == [route |-> "POST /auth/register", body |-> body, request |-> r]
      sanitized == [body EXCEPT !.email = NormalizeEmail(body.email)]
  IN  /\ pending' = [q \in DOMAIN pending \ {r} |-> pending[q]]
      /\ IF \/ validateDocument(NewUser(sanitized)) # {}
            \/ DuplicateKey(NewUser(sanitized))
         THEN Reply(rq, Json(500, FALSE, "Server error during registration"))
         ELSE \E salt \in Salts :
                LET user == PreSave(NewUser(sanitized), salt)
                    token == JwtSign(nextId, user.email, JWT_SECRET, JWT_EXPIRES_IN)
                IN  /\ nextId <= MaxUsers
                    /\ users' = (nextId :> user) @@ users
                    /\ registered' = (nextId :> body.password) @@ registered
                    /\ nextId' = nextId + 1
                    /\ held' \in Keep(token)
                    /\ req' = rq
                    /\ res' = Json(201, TRUE, "User registered successfully")
                                @@ [user |-> Pick(WithId(user, nextId), authUserFields),
                                    token |-> token]
                    /\ UNCHANGED now

----------------------------------------------------------------------------
(* middleware/auth: authenticate.  next |-> TRUE means next() was called   *)
(* with req.user set to the document of userId; otherwise res was sent.    *)

NoHeader == [scheme |-> "none"]
Bearer(token) == [scheme |-> "Bearer", token |-> token]

authenticate_NoLookup(authHeader) ==
  IF authHeader.scheme # "Bearer"
  THEN [next |-> FALSE,
        res |-> Json(401, FALSE, "Access denied. No token provided.")]
  ELSE IF authHeader.token.kind = "empty"
  THEN [next |-> FALSE,
        res |-> Json(401, FALSE, "Access denied. Invalid token format.")]
  ELSE IF ~JwtVerify(authHeader.token, JWT_SECRET)
  THEN [next |-> FALSE, res |-> Json(401, FALSE, "Token is not valid.")]
  ELSE [next |-> TRUE, userId |-> authHeader.token.userId]

authenticate_LatestLoginOnly(authHeader) ==
  IF authHeader.scheme # "Bearer"
  THEN [next |-> FALSE,
        res |-> Json(401, FALSE, "Access denied. No token provided.")]
  ELSE IF authHeader.token.kind = "empty"
  THEN [next |-> FALSE,
        res |-> Json(401, FALSE, "Access denied. Invalid token format.")]
  ELSE IF ~JwtVerify(authHeader.token, JWT_SECRET) \/ "POST /auth/login" \in since
  THEN [next |-> FALSE, res |-> Json(401, FALSE, "Token is not valid.")]
  ELSE IF FindById(authHeader.token.userId) = {}
  THEN [next |-> FALSE,
        res |-> Json(401, FALSE, "Token is not valid. User not found.")]
  ELSE [next |-> TRUE, userId |-> authHeader.token.userId]

authenticate_ExpiredMessage(authHeader) ==
  IF authHeader.scheme # "Bearer"
  THEN [next |-> FALSE,
        res |-> Json(401, FALSE, "Access denied. No token provided.")]
  ELSE IF authHeader.token.kind = "empty"
  THEN [next |-> FALSE,
        res |-> Json(401, FALSE, "Access denied. Invalid token format.")]
  ELSE IF ~JwtVerify(authHeader.token, JWT_SECRET)
  THEN IF /\ authHeader.token.kind = "jwt"
          /\ authHeader.token.sig = JWT_SECRET
       THEN [next |-> FALSE, res |-> Json(401, FALSE, "Token has expired.")]
       ELSE [next |-> FALSE, res |-> Json(401, FALSE, "Token is not valid.")]
  ELSE IF FindById(authHeader.token.userId) = {}
  THEN [next |-> FALSE,
        res |-> Json(401, FALSE, "Token is not valid. User not found.")]
  ELSE [next |-> TRUE, userId |-> authHeader.token.userId]

authenticate(authHeader) ==
  IF authHeader.scheme # "Bearer"
  THEN [next |-> FALSE,
        res |-> Json(401, FALSE, "Access denied. No token provided.")]
  ELSE IF authHeader.token.kind = "empty"
  THEN [next |-> FALSE,
        res |-> Json(401, FALSE, "Access denied. Invalid token format.")]
  ELSE IF ~JwtVerify(authHeader.token, JWT_SECRET)
  THEN [next |-> FALSE, res |-> Json(401, FALSE, "Token is not valid.")]
  ELSE IF FindById(authHeader.token.userId) = {}
  THEN [next |-> FALSE,
        res |-> Json(401, FALSE, "Token is not valid. User not found.")]
  ELSE [next |-> TRUE, userId |-> authHeader.token.userId]

\* the response of a request that authenticate ended
Rejected(rq, auth) == Reply(rq, auth.res @@ [handler |-> FALSE])

\* the response of a route handler
Handled(rs) == rs @@ [handler |-> TRUE]

getMe_FirstUser(authHeader) ==
  LET auth == authenticate(authHeader)
      rq == [route |-> "GET /auth/me", auth |-> authHeader]
  IN  IF ~auth.next THEN Rejected(rq, auth)
      ELSE \E user \in FindById(CHOOSE i \in DOMAIN users : \A j \in DOMAIN users : i <= j) :
             Reply(rq, Handled(Json(200, TRUE, "User retrieved successfully")
                               @@ [user |-> Pick(user, meUserFields)]))

\* GET /api/auth/me
getMe(authHeader) ==
  LET auth == authenticate(authHeader)
      rq == [route |-> "GET /auth/me", auth |-> authHeader]
  IN  IF ~auth.next THEN Rejected(rq, auth)
      ELSE IF FindById(auth.userId) = {}
      THEN Reply(rq, Handled(Json(404, FALSE, "User not found")))
      ELSE \E user \in FindById(auth.userId) :
             Reply(rq, Handled(Json(200, TRUE, "User retrieved successfully")
                               @@ [user |-> Pick(user, meUserFields)]))

----------------------------------------------------------------------------
(* profileController *)

\* the data object getProfile and updateProfile put in their response
profileFields ==
  {"_id", "name", "email", "designation", "currentCTC", "expectedCTC",
   "noticePeriod", "noticePeriodDays", "isEmailVerified"}

\* GET /api/profile
getProfile(authHeader) ==
  LET auth == authenticate(authHeader)
      rq == [route |-> "GET /profile", auth |-> authHeader]
  IN  IF ~auth.next THEN Rejected(rq, auth)
      ELSE IF FindById(auth.userId) = {}
      THEN Reply(rq, Handled(Json(404, FALSE, "User not found")))
      ELSE \E user \in FindById(auth.userId) :
             Reply(rq, Handled(Json(200, TRUE, "Profile retrieved successfully")
                               @@ [data |-> Pick(user, profileFields)]))

\* express-validator chain of PUT /api/profile: the failing paths
updateProfileValidation(body) ==
  {f \in {"designation"} \cap DOMAIN body : body.designation \notin Designations}
  \cup {f \in {"currentCTC"} \cap DOMAIN body :
          body.currentCTC < 0 \/ body.currentCTC > MaxCTC}
  \cup {f \in {"expectedCTC"} \cap DOMAIN body :
          \/ body.expectedCTC < 0 \/ body.expectedCTC > MaxCTC
          \/ (Has(body, "currentCTC") /\ body.expectedCTC < body.currentCTC)}
  \cup {f \in {"noticePeriod"} \cap DOMAIN body : body.noticePeriod \notin {"Yes", "No"}}
  \cup {f \in {"noticePeriodDays"} \cap DOMAIN body :
          body.noticePeriodDays < 0 \/ body.noticePeriodDays > MaxNoticeDays}

allowedFields_WithEmail ==
  {"name", "email", "designation", "currentCTC", "expectedCTC", "noticePeriod",
   "noticePeriodDays"}

allowedFields ==
  {"name", "designation", "currentCTC", "expectedCTC", "noticePeriod",
   "noticePeriodDays"}

\* runValidators: the schema's validators on the paths of the update, with
\* `this` the query (Mongoose 8), so that this.currentCTC and
\* this.noticePeriod are undefined.  The failing paths.
validateUpdate(updates) ==
  {f \in {"name"} \cap DOMAIN updates :
     Len(updates.name) = 0 \/ Len(updates.name) > 50}
  \cup {f \in {"designation"} \cap DOMAIN updates :
          updates.designation \notin Designations}
  \cup {f \in {"currentCTC"} \cap DOMAIN updates :
          updates.currentCTC < 0 \/ updates.currentCTC > MaxCTC}
  \cup {f \in {"expectedCTC"} \cap DOMAIN updates : TRUE}
  \cup {f \in {"noticePeriod"} \cap DOMAIN updates :
          updates.noticePeriod \notin {"Yes", "No"}}
  \cup {f \in {"noticePeriodDays"} \cap DOMAIN updates :
          updates.noticePeriodDays < 0 \/ updates.noticePeriodDays > MaxNoticeDays}

\* User.findByIdAndUpdate(id, updates): $set of the given paths
ApplyUpdate(doc, updates) ==
  [f \in DOMAIN doc \cup DOMAIN updates |->
     IF f \in DOMAIN updates THEN updates[f] ELSE doc[f]]

updateProfile_AnyRecord(authHeader, body) ==
  LET auth == authenticate(authHeader)
      rq == [route |-> "PUT /profile", auth |-> authHeader, body |-> body]
      errors == updateProfileValidation(body)
      updates == Pick(body, allowedFields)
  IN  IF ~auth.next THEN Rejected(rq, auth)
      ELSE IF errors # {}
      THEN Reply(rq, Handled(Json(400, FALSE, "Validation failed")
                             @@ [errors |-> errors]))
      ELSE IF validateUpdate(updates) # {}
      THEN Reply(rq, Handled(Json(500, FALSE, "Server error updating profile")))
      ELSE \E target \in DOMAIN users :
             LET updatedUser == ApplyUpdate(users[target], updates)
             IN  /\ users' = [users EXCEPT ![target] = updatedUser]
                 /\ req' = rq
                 /\ res' = Handled(Json(200, TRUE, "Profile updated successfully")
                                   @@ [data |-> Pick(WithId(updatedUser, target),
                                                     profileFields)])
                 /\ UNCHANGED <<nextId, now, held, registered>>

\* PUT /api/profile
updateProfile(authHeader, body) ==
  LET auth == authenticate(authHeader)
      rq == [route |-> "PUT /profile", auth |-> authHeader, body |-> body]
      errors == updateProfileValidation(body)
      updates == Pick(body, allowedFields)
  IN  IF ~auth.next THEN Rejected(rq, auth)
      ELSE IF errors # {}
      THEN Reply(rq, Handled(Json(400, FALSE, "Validation failed")
                             @@ [errors |-> errors]))
      ELSE IF FindById(auth.userId) = {}
      THEN Reply(rq, Handled(Json(404, FALSE, "User not found")))
      ELSE IF validateUpdate(updates) # {}
      THEN Reply(rq, Handled(Json(500, FALSE, "Server error updating profile")))
      ELSE LET updatedUser == ApplyUpdate(users[auth.userId], updates)
           IN  /\ users' = [users EXCEPT ![auth.userId] = updatedUser]
               /\ req' = rq
               /\ res' = Handled(Json(200, TRUE, "Profile updated successfully")
                                 @@ [data |-> Pick(WithId(updatedUser, auth.userId),
                                                   profileFields)])
               /\ UNCHANGED <<nextId, now, held, registered>>

DeletionReceived ==
  "Profile deletion request received. This feature can be implemented based on business requirements."

deleteProfile_Removes(authHeader) ==
  LET auth == authenticate(authHeader)
      rq == [route |-> "DELETE /profile", auth |-> authHeader]
  IN  IF ~auth.next THEN Rejected(rq, auth)
      ELSE /\ users' = [i \in DOMAIN users \ {auth.userId} |-> users[i]]
           /\ req' = rq
           /\ res' = Handled(Json(200, TRUE, DeletionReceived))
           /\ UNCHANGED <<nextId, now, held, registered>>

\* DELETE /api/profile
deleteProfile(authHeader) ==
  LET auth == authenticate(authHeader)
      rq == [route |-> "DELETE /profile", auth |-> authHeader]
  IN  IF ~auth.next THEN Rejected(rq, auth)
      ELSE IF FindById(auth.userId) = {}
      THEN Reply(rq, Handled(Json(404, FALSE, "User not found")))
      ELSE Reply(rq, Handled(Json(200, TRUE, DeletionReceived)))

----------------------------------------------------------------------------
(* middleware/auth: rateLimit and sanitizeInput, as routes/auth.ts puts    *)
(* them in front of register and login.  Date.now() is `clock`, in units   *)
(* of 7.5 minutes, so that the window of 15 * 60 * 1000 ms is 2 units.     *)

windowMs == 2
registerMax == 3
loginMax == 5

IPs == {"10.0.0.1", "10.0.0.2"}

LimitedRoutes == {"POST /auth/register", "POST /auth/login"}

\* rateLimit(maxRequests, windowMs) answering a request of clientIP: next()
\* is called with the Map as `counts`, or res is sent.  All limiters share
\* the one Map requestCounts, keyed by client and window only.
rateLimit(route, clientIP, maxRequests) ==
  LET windowKey == <<clientIP, clock \div windowMs>>
  IN  IF \/ windowKey \notin DOMAIN requestCounts
         \/ clock > requestCounts[windowKey].resetTime
      THEN [next |-> TRUE,
            counts |-> (windowKey :> [count |-> 1, resetTime |-> clock + windowMs])
                       @@ requestCounts]
      ELSE IF requestCounts[windowKey].count < maxRequests
      THEN [next |-> TRUE,
            counts |-> [requestCounts EXCEPT ![windowKey].count = @ + 1]]
      ELSE [next |-> FALSE,
            res |-> Json(429, FALSE, "Too many requests. Please try again later.")
                    @@ [retryAfter |->
                          450 * (requestCounts[windowKey].resetTime - clock)]]

RECURSIVE TrimStart(_)
TrimStart(s) ==
  IF s # << >> /\ Head(s) = " " THEN TrimStart(Tail(s)) ELSE s

RECURSIVE TrimEnd(_)
TrimEnd(s) ==
  IF s # << >> /\ s[Len(s)] = " " THEN TrimEnd(SubSeq(s, 1, Len(s) - 1)) ELSE s

RECURSIVE CollapseSpaces(_)
CollapseSpaces(s) ==
  IF Len(s) < 2 THEN s
  ELSE IF s[1] = " " /\ s[2] = " " THEN CollapseSpaces(Tail(s))
  ELSE <<s[1]>> \o CollapseSpaces(Tail(s))

\* sanitizeInput on req.body: every string is stripped of script elements,
\* 'javascript:' and on...= attributes, trimmed, and its runs of whitespace
\* are made one space.  The strings clients send here have no '<', ':' or
\* '=', so the three removals find nothing; name and password are the
\* strings that may carry spaces.
sanitizeInput(body) ==
  [f \in DOMAIN body |->
     IF f \in {"name", "password"}
     THEN CollapseSpaces(TrimEnd(TrimStart(body[f])))
     ELSE body[f]]

\* the history of a request let past the limiter of route
Admit(clientIP, route) ==
  [admitted EXCEPT ![<<clientIP, route, clock>>] = @ + 1]

RECURSIVE Total(_, _)
Total(f, keys) ==
  IF keys = {} THEN 0
  ELSE LET k == CHOOSE x \in keys : TRUE IN f[k] + Total(f, keys \ {k})

\* a request the limiter answers itself
TooMany(route, clientIP, body, limit) ==
  /\ req' = [route |-> route, body |-> body, ip |-> clientIP]
  /\ res' = limit.res
  /\ UNCHANGED <<users, nextId, now, held, registered, requestCounts, admitted>>

\* router.post('/register', rateLimit(3, ...), sanitizeInput,
\*             registerValidation, register)
registerRoute(clientIP, body) ==
  LET limit == rateLimit("POST /auth/register", clientIP, registerMax)
  IN  IF ~limit.next THEN TooMany("POST /auth/register", clientIP, body, limit)
      ELSE /\ Total(admitted, DOMAIN admitted) < MaxAdmitted
           /\ register(sanitizeInput(body))
           /\ requestCounts' = limit.counts
           /\ admitted' = Admit(clientIP, "POST /auth/register")

\* router.post('/login', rateLimit(5, ...), sanitizeInput, loginValidation,
\*             login)
loginRoute(clientIP, body) ==
  LET limit == rateLimit("POST /auth/login", clientIP, loginMax)
  IN  IF ~limit.next THEN TooMany("POST /auth/login", clientIP, body, limit)
      ELSE /\ Total(admitted, DOMAIN admitted) < MaxAdmitted
           /\ login(sanitizeInput(body))
           /\ requestCounts' = limit.counts
           /\ admitted' = Admit(clientIP, "POST /auth/login")

\* the time of day passes
Advance ==
  /\ clock < MaxClock
  /\ clock' = clock + 1
  /\ req' = Idle
  /\ res' = NoResponse
  /\ UNCHANGED <<users, nextId, now, held, registered, requestCounts, admitted>>

----------------------------------------------------------------------------
(* The environment: the clock, and the store losing a document other than  *)
(* through this API (the case authenticate's "User not found" answers).    *)

Tick ==
  /\ now < MaxTime
  /\ now' = now + 1
  /\ req' = Idle
  /\ res' = NoResponse
  /\ UNCHANGED <<users, nextId, held, registered>>

RemoveRecord(id) ==
  /\ id \in DOMAIN users
  /\ users' = [i \in DOMAIN users \ {id} |-> users[i]]
  /\ req' = Idle
  /\ res' = NoResponse
  /\ UNCHANGED <<nextId, now, held, registered>>

\* authService.logout: the client drops its token; no request is sent.  The
\* token itself stays usable wherever a copy of it is left.
logout ==
  /\ req' = [route |-> "client logout"]
  /\ res' = NoResponse
  /\ held' \in {held, {}}
  /\ UNCHANGED <<users, nextId, now, registered>>

\* the calls whose kinds the history records
Events ==
  {"POST /auth/register", "POST /auth/login", "PUT /profile", "DELETE /profile",
   "client logout"}

\* the history of the step just taken
Track ==
  since' = IF held' = held /\ held # {}
           THEN since \cup ({req'.route} \cap Events)
           ELSE {}

TrackOnly == Track /\ UNCHANGED <<limiter, pending, client>>

----------------
(* What clients send *)

ValidBody(email, password) ==
  [name |-> AdaName, email |-> email, password |-> password,
   designation |-> "Dr", currentCTC |-> 1, expectedCTC |-> 2,
   noticePeriod |-> "No"]

\* tokens not signed with the server's secret: copies of the real one signed
\* with another key, or unsigned
Forged == {[t EXCEPT !.sig = k] : t \in held, k \in {"attacker-key", "none"}}

Headers ==
  {NoHeader, [scheme |-> "Basic"], Bearer([kind |-> "empty"]),
   Bearer([kind |-> "malformed"])}
  \cup {Bearer(t) : t \in held \cup Forged}

\* the session specification: few bodies, the clock runs
SessionRegisterBodies ==
  {ValidBody("a@b.com", Abcd123), ValidBody("c@d.com", Abcd123),
   ValidBody("not-an-email", Abcd123)}

SessionLoginBodies ==
  {[email |-> "a@b.com", password |-> Abcd123],
   [email |-> "c@d.com", password |-> Abcd123],
   [email |-> "a@b.com", password |-> Wrong789]}

SessionUpdateBodies ==
  {[name |-> NewName, email |-> "evil@x.com"]}

\* the store specification: many bodies, the clock stands
RegisterBodies ==
  {ValidBody(e, p) : e \in {"a@b.com", "A@B.com", "c@d.com"}, p \in {Abcd123, LongA}}
  \cup {ValidBody("a@b.com", WeakPassword),
        ValidBody("not-an-email", Abcd123),
        [ValidBody("c@d.com", Abcd123) EXCEPT !.expectedCTC = 0],
        ValidBody("c@d.com", Abcd123) @@ [isEmailVerified |-> TRUE]}

LoginBodies ==
  {[email |-> e, password |-> p] :
     e \in {"a@b.com", "A@B.com", "c@d.com"},
     p \in {Abcd123, LongA, LongB, Wrong789}}
  \cup {[email |-> "a@b.com", password |-> EmptyString],
        [email |-> "not-an-email", password |-> Abcd123]}

UpdateBodies ==
  {[name |-> NewName, email |-> "evil@x.com", password |-> Wrong789,
    isEmailVerified |-> TRUE, _id |-> 99],
   [email |-> "c@d.com"],
   [name |-> AdaName],
   [designation |-> "Sir"],
   [expectedCTC |-> 5]}

\* the profile specification: compensation and notice-period bodies, the
\* clock stands
ProfileRegisterBodies ==
  {ValidBody("a@b.com", Abcd123),
   ValidBody("c@d.com", Abcd123) @@ [noticePeriodDays |-> 30],
   [ValidBody("c@d.com", Abcd123) EXCEPT !.noticePeriod = "Yes"],
   [ValidBody("c@d.com", Abcd123) EXCEPT !.noticePeriod = "Yes"]
     @@ [noticePeriodDays |-> 30],
   [ValidBody("c@d.com", Abcd123) EXCEPT !.expectedCTC = 0],
   [ValidBody("c@d.com", Abcd123) EXCEPT !.name = ShortName]}

ProfileLoginBodies ==
  {[email |-> "a@b.com", password |-> Abcd123],
   [email |-> "c@d.com", password |-> Abcd123]}

ProfileUpdateBodies ==
  {[currentCTC |-> 5],
   [expectedCTC |-> 0],
   [expectedCTC |-> 9],
   [currentCTC |-> 5, expectedCTC |-> 1],
   [noticePeriod |-> "Yes"],
   [noticePeriod |-> "Yes", noticePeriodDays |-> 30],
   [noticePeriod |-> "No", noticePeriodDays |-> 30],
   [noticePeriodDays |-> 400],
   [designation |-> "Sir"]}

ProfileHeaders == {NoHeader} \cup {Bearer(t) : t \in held}

\* the statelessness specification: one user, the clock runs, the history of
\* calls since the held token was taken is recorded
StatelessRegisterBodies == {ValidBody("a@b.com", Abcd123)}

StatelessLoginBodies == {[email |-> "a@b.com", password |-> Abcd123]}

StatelessUpdateBodies == {[name |-> NewName]}

\* the rate-limit specification: two clients, the clock runs over a window
\* boundary
SpacedName == <<" ", "A", "d", " ", " ", "a">>

LimitRegisterBodies ==
  {[ValidBody("a@b.com", Abcd123) EXCEPT !.name = SpacedName]}

LimitLoginBodies == {[email |-> "a@b.com", password |-> Abcd123]}

----------------------------------------------------------------------------
(* The frontend: services/auth (authService over localStorage), services/  *)
(* api (the axios instance with its interceptors) and AuthProvider.  The   *)
(* server is whatever answers: every response an API call can get is       *)
(* possible.  The browser's clock counts units in which SESSION_TIMEOUT    *)
(* (24 hours) is 3 and PROMPT_BEFORE (1 hour) is 1; VALIDATION_COOLDOWN    *)
(* (5 seconds) is one unit, the least time the clock can tell.             *)

SESSION_TIMEOUT == 3
PROMPT_BEFORE == 1
VALIDATION_COOLDOWN == 1

\* null or undefined where a string is expected (localStorage.getItem, a
\* missing field of a response)
NoItem == "null"

\* null where a parsed session is expected
NoSession == [kind |-> "none"]

\* what the server hands out: tokens and user objects
Tokens == {"t1", "t2"}
UserObjects == {"u1", "u2"}

\* the ids of the async calls that can wait for the server at a time
CallIds == {"c1", "c2"}

\* what an API call can end with: a 2xx response with its data, a response
\* of another status (axios rejects with error.response), or no response
Ok(user, token) ==
  [status |-> 200, success |-> TRUE, user |-> user, token |-> token]
Failed(status) == [status |-> status, success |-> FALSE]
NetworkError == [status |-> 0, success |-> FALSE]

IsError(response) == response.status \notin 200..299

\* nothing observable happened
Quiet == [op |-> "none"]

\* authService.clearSession, authService.logout
clearSession(st) == [authSession |-> NoSession, authToken |-> NoItem]

\* authService.setSession
setSession(token, user, t) ==
  [authSession |-> [user |-> user, token |-> token,
                    expiresAt |-> t + SESSION_TIMEOUT, createdAt |-> t],
   authToken |-> token]

\* authService.getSession: what it returns and what it leaves in storage
getSession(st, t) ==
  IF st.authSession = NoSession
  THEN [ret |-> NoSession, storage |-> st, cleared |-> FALSE]
  ELSE IF t > st.authSession.expiresAt
  THEN [ret |-> NoSession, storage |-> clearSession(st), cleared |-> TRUE]
  ELSE [ret |-> st.authSession, storage |-> st, cleared |-> FALSE]

\* authService.isSessionExpired
isSessionExpired(st, t) ==
  LET g == getSession(st, t)
  IN  [ret |-> (g.ret = NoSession \/ t > g.ret.expiresAt),
       storage |-> g.storage, cleared |-> g.cleared]

\* authService.refreshSession, without its getSession
refreshSession_Unchecked(st, t) ==
  IF st.authSession # NoSession
  THEN [storage |-> [st EXCEPT !.authSession.expiresAt = t + SESSION_TIMEOUT],
        cleared |-> FALSE]
  ELSE [storage |-> st, cleared |-> FALSE]

\* authService.refreshSession
refreshSession(st, t) ==
  LET g == getSession(st, t)
  IN  IF g.ret # NoSession
      THEN [storage |-> [g.storage EXCEPT
                           !.authSession = [g.ret EXCEPT !.expiresAt = t + SESSION_TIMEOUT]],
            cleared |-> g.cleared]
      ELSE [storage |-> g.storage, cleared |-> g.cleared]

\* authService.updateStoredUser
updateStoredUser(st, t, user) ==
  LET g == getSession(st, t)
  IN  IF g.ret # NoSession
      THEN [storage |-> [g.storage EXCEPT
                           !.authSession = [g.ret EXCEPT !.user = user]],
            cleared |-> g.cleared]
      ELSE [storage |-> g.storage, cleared |-> g.cleared]

\* authService.getStoredUser
getStoredUser(st, t) ==
  LET g == getSession(st, t)
  IN  [ret |-> IF g.ret # NoSession THEN g.ret.user ELSE NoItem,
       storage |-> g.storage, cleared |-> g.cleared]

\* api.interceptors.request: the Authorization header of the request sent
requestInterceptor(st) == st.authToken

\* api.interceptors.response, removing the token only
responseInterceptor_TokenOnly(st, path, response) ==
  IF /\ response.status = 401
     /\ (st.authToken # NoItem \/ st.authSession # NoSession)
  THEN [storage |-> [st EXCEPT !.authToken = NoItem], pathname |-> "/login"]
  ELSE [storage |-> st, pathname |-> path]

\* api.interceptors.response: the storage and the location it leaves
responseInterceptor(st, path, response) ==
  IF /\ response.status = 401
     /\ (st.authToken # NoItem \/ st.authSession # NoSession)
  THEN [storage |-> [authSession |-> NoSession, authToken |-> NoItem],
        pathname |-> "/login"]
  ELSE [storage |-> st, pathname |-> path]

\* authService.validateStoredSession up to its await, not looking at
\* isValidatingSession
validateBegin_Unguarded(st, t, flag, last) ==
  LET g == getSession(st, t)
      e == isSessionExpired(g.storage, t)
      same == [storage |-> e.storage, flag |-> flag, last |-> last,
               cleared |-> g.cleared]
  IN  IF g.ret = NoSession
      THEN [awaits |-> FALSE, ret |-> FALSE, storage |-> g.storage,
            flag |-> flag, last |-> last, cleared |-> g.cleared]
      ELSE IF e.ret
      THEN [awaits |-> FALSE, ret |-> FALSE, storage |-> clearSession(e.storage),
            flag |-> flag, last |-> last, cleared |-> TRUE]
      ELSE IF t - last < VALIDATION_COOLDOWN
      THEN [awaits |-> FALSE, ret |-> TRUE] @@ same
      ELSE [awaits |-> TRUE, ret |-> FALSE, storage |-> e.storage,
            flag |-> TRUE, last |-> t, cleared |-> g.cleared]

\* authService.validateStoredSession up to its await: what it returns at
\* once (awaits |-> FALSE), or the module state it waits with
validateBegin(st, t, flag, last) ==
  LET g == getSession(st, t)
      e == isSessionExpired(g.storage, t)
      same == [storage |-> e.storage, flag |-> flag, last |-> last,
               cleared |-> g.cleared]
  IN  IF g.ret = NoSession
      THEN [awaits |-> FALSE, ret |-> FALSE, storage |-> g.storage,
            flag |-> flag, last |-> last, cleared |-> g.cleared]
      ELSE IF e.ret
      THEN [awaits |-> FALSE, ret |-> FALSE, storage |-> clearSession(e.storage),
            flag |-> flag, last |-> last, cleared |-> TRUE]
      ELSE IF flag
      THEN [awaits |-> FALSE, ret |-> TRUE] @@ same
      ELSE IF t - last < VALIDATION_COOLDOWN
      THEN [awaits |-> FALSE, ret |-> TRUE] @@ same
      ELSE [awaits |-> TRUE, ret |-> FALSE, storage |-> e.storage,
            flag |-> TRUE, last |-> t, cleared |-> g.cleared]

\* authService.validateStoredSession from the answer of getCurrentUser on;
\* st is the storage the response interceptor left
validateEnd(st, t, response) ==
  IF ~IsError(response)
  THEN IF response.success /\ response.user # NoItem
       THEN LET u == updateStoredUser(st, t, response.user)
                r == refreshSession(u.storage, t)
            IN  [ret |-> TRUE, storage |-> r.storage,
                 cleared |-> u.cleared \/ r.cleared]
       ELSE [ret |-> FALSE, storage |-> st, cleared |-> FALSE]
  ELSE IF response.status = 401 \/ response.status = 404
  THEN [ret |-> FALSE, storage |-> clearSession(st), cleared |-> FALSE]
  ELSE IF response.status >= 500
  THEN [ret |-> TRUE, storage |-> st, cleared |-> FALSE]
  ELSE IF response = NetworkError
  THEN [ret |-> TRUE, storage |-> st, cleared |-> FALSE]
  ELSE [ret |-> FALSE, storage |-> clearSession(st), cleared |-> FALSE]

\* authService.login and authService.register after their await
sessionFrom(st, t, response) ==
  IF response.success /\ response.token # NoItem /\ response.user # NoItem
  THEN setSession(response.token, response.user, t)
  ELSE st

Free(c) == c \notin DOMAIN calls
Drop(c) == [d \in DOMAIN calls \ {c} |-> calls[d]]

Urls ==
  [login |-> "/auth/login", register |-> "/auth/register",
   getCurrentUser |-> "/auth/me", validateStoredSession |-> "/auth/me"]

\* api.get, api.post: the request leaves with what the interceptor attached
Sent(c, kind) ==
  [op |-> "request", call |-> c, url |-> Urls[kind],
   authorization |-> requestInterceptor(storage), stale |-> FALSE]

\* a component calls authService.getSession()
callGetSession ==
  LET g == getSession(storage, time)
  IN  /\ storage' = g.storage
      /\ out' = [op |-> "getSession", ret |-> g.ret, cleared |-> g.cleared]
      /\ UNCHANGED <<time, isValidatingSession, lastValidationTime, pathname, calls>>

\* a component calls authService.refreshSession()
callRefreshSession ==
  LET r == refreshSession(storage, time)
  IN  /\ storage' = r.storage
      /\ out' = [op |-> "refreshSession", cleared |-> r.cleared]
      /\ UNCHANGED <<time, isValidatingSession, lastValidationTime, pathname, calls>>

\* a component calls authService.updateStoredUser(user)
callUpdateStoredUser(user) ==
  LET u == updateStoredUser(storage, time, user)
  IN  /\ storage' = u.storage
      /\ out' = [op |-> "updateStoredUser", cleared |-> u.cleared]
      /\ UNCHANGED <<time, isValidatingSession, lastValidationTime, pathname, calls>>

\* a component calls authService.logout()
callLogout ==
  /\ storage' = clearSession(storage)
  /\ out' = [op |-> "logout"]
  /\ UNCHANGED <<time, isValidatingSession, lastValidationTime, pathname, calls>>

\* call c of authService.validateStoredSession() runs up to its await or
\* its early return
validateStoredSession(c) ==
  LET v == validateBegin(storage, time, isValidatingSession, lastValidationTime)
  IN  /\ Free(c)
      /\ storage' = v.storage
      /\ isValidatingSession' = v.flag
      /\ lastValidationTime' = v.last
      /\ IF v.awaits
         THEN /\ calls' = (c :> [kind |-> "validateStoredSession",
                                 authorization |-> requestInterceptor(v.storage)])
                          @@ calls
              /\ out' = [Sent(c, "validateStoredSession") EXCEPT
                           !.authorization = requestInterceptor(v.storage)]
         ELSE /\ calls' = calls
              /\ out' = [op |-> "validateStoredSession", call |-> c,
                         ret |-> v.ret, cleared |-> v.cleared, asked |-> FALSE]
      /\ UNCHANGED <<time, pathname>>

\* the request of call c of validateStoredSession settles
validateSettles(c, response) ==
  LET i == responseInterceptor(storage, pathname, response)
      v == validateEnd(i.storage, time, response)
  IN  /\ ~Free(c)
      /\ calls[c].kind = "validateStoredSession"
      /\ storage' = v.storage
      /\ pathname' = i.pathname
      /\ isValidatingSession' = FALSE
      /\ calls' = Drop(c)
      /\ out' = [op |-> "validateStoredSession", call |-> c, ret |-> v.ret,
                 cleared |-> v.cleared, asked |-> TRUE, response |-> response,
                 status |-> response.status,
                 redirected |-> i.pathname # pathname,
                 authorization |-> calls[c].authorization]
      /\ UNCHANGED <<time, lastValidationTime>>

\* call c of authService.login, register or getCurrentUser sends its request
apiCall(c, kind) ==
  /\ Free(c)
  /\ calls' = (c :> [kind |-> kind, by |-> "authService",
                     authorization |-> requestInterceptor(storage)])
              @@ calls
  /\ out' = Sent(c, kind)
  /\ UNCHANGED <<storage, time, isValidatingSession, lastValidationTime, pathname>>

\* the request of call c of authService.login, register or getCurrentUser
\* settles
apiSettles(c, response) ==
  LET i == responseInterceptor(storage, pathname, response)
  IN  /\ ~Free(c)
      /\ calls[c].kind \in {"login", "register", "getCurrentUser"}
      /\ calls[c].by = "authService"
      /\ storage' = IF ~IsError(response) /\ calls[c].kind # "getCurrentUser"
                    THEN sessionFrom(i.storage, time, response)
                    ELSE i.storage
      /\ pathname' = i.pathname
      /\ calls' = Drop(c)
      /\ out' = [op |-> calls[c].kind, call |-> c, by |-> "authService",
                 status |-> response.status,
                 redirected |-> i.pathname # pathname,
                 session |-> storage'.authSession # i.storage.authSession]
      /\ UNCHANGED <<time, isValidatingSession, lastValidationTime>>

\* the user goes to another page
navigate(path) ==
  /\ pathname' = path
  /\ out' = Quiet
  /\ UNCHANGED <<storage, time, isValidatingSession, lastValidationTime, calls>>

\* the browser's clock; a timer that is due fires first
passTime ==
  /\ time < MaxClientTime
  /\ \A k \in DOMAIN timeoutRef : timeoutRef[k] # time /\ promptRef[k] # time
  /\ time' = time + 1
  /\ out' = Quiet
  /\ UNCHANGED <<storage, isValidatingSession, lastValidationTime, pathname, calls>>

(* AuthProvider (contexts/AuthContext) and the useSessionTimeout hook.  A  *)
(* dispatch, the render it causes and the effects that render re-runs are  *)
(* one step.                                                               *)

\* the components that own timers
Components == {"AuthProvider", "useSessionTimeout"}

\* a ref whose timer is not pending
NoTimer == -1

\* AuthContext: initialState
initialState ==
  [isAuthenticated |-> FALSE, user |-> NoItem, isLoading |-> TRUE, error |-> NoItem]

\* authReducer with a SET_ERROR that leaves isLoading as it is
authReducer_ErrorKeepsLoading(st, action) ==
  CASE action.type = "SET_LOADING" -> [st EXCEPT !.isLoading = action.payload]
    [] action.type = "SET_AUTHENTICATED" ->
         [st EXCEPT !.isAuthenticated = TRUE, !.user = action.payload,
                    !.isLoading = FALSE, !.error = NoItem]
    [] action.type = "SET_UNAUTHENTICATED" ->
         [st EXCEPT !.isAuthenticated = FALSE, !.user = NoItem,
                    !.isLoading = FALSE, !.error = NoItem]
    [] action.type = "SET_ERROR" ->
         [st EXCEPT !.error = action.payload]
    [] action.type = "CLEAR_ERROR" -> [st EXCEPT !.error = NoItem]
    [] action.type = "UPDATE_USER" -> [st EXCEPT !.user = action.payload]
    [] OTHER -> st

\* authReducer
authReducer(st, action) ==
  CASE action.type = "SET_LOADING" -> [st EXCEPT !.isLoading = action.payload]
    [] action.type = "SET_AUTHENTICATED" ->
         [st EXCEPT !.isAuthenticated = TRUE, !.user = action.payload,
                    !.isLoading = FALSE, !.error = NoItem]
    [] action.type = "SET_UNAUTHENTICATED" ->
         [st EXCEPT !.isAuthenticated = FALSE, !.user = NoItem,
                    !.isLoading = FALSE, !.error = NoItem]
    [] action.type = "SET_ERROR" ->
         [st EXCEPT !.error = action.payload, !.isLoading = FALSE]
    [] action.type = "CLEAR_ERROR" -> [st EXCEPT !.error = NoItem]
    [] action.type = "UPDATE_USER" -> [st EXCEPT !.user = action.payload]
    [] OTHER -> st

Plain(type) == [type |-> type]
With(type, payload) == [type |-> type, payload |-> payload]

\* the reducer run over the actions a handler dispatches in a row
RECURSIVE Reduce(_, _)
Reduce(st, actions) ==
  IF actions = << >> THEN st
  ELSE Reduce(authReducer(st, Head(actions)), Tail(actions))

\* the timers a resetTimer leaves pending: none, or the two it arms at t
Unarmed == [prompt |-> NoTimer, timeout |-> NoTimer]
Armed(t) ==
  [prompt |-> t + SESSION_TIMEOUT - PROMPT_BEFORE, timeout |-> t + SESSION_TIMEOUT]

\* AuthProvider.resetTimer arming the forced logout for the warning's delay
providerResetTimer_Early(st, t) ==
  IF st.isAuthenticated
  THEN IF ~st.isLoading
       THEN [Armed(t) EXCEPT !.timeout = t + SESSION_TIMEOUT - PROMPT_BEFORE]
       ELSE Unarmed
  ELSE Unarmed

\* AuthProvider.resetTimer of the render that saw st
providerResetTimer(st, t) ==
  IF st.isAuthenticated
  THEN IF ~st.isLoading THEN Armed(t) ELSE Unarmed
  ELSE Unarmed

\* useSessionTimeout's resetTimer of the render that saw st
hookResetTimer(st, t) ==
  IF st.isAuthenticated THEN Armed(t) ELSE Unarmed

\* useSessionTimeout's mount effect: the timers it arms from the stored
\* session
hookMountTimers(st, t) ==
  LET g == getSession(st, t)
      e == isSessionExpired(g.storage, t)
  IN  IF g.ret # NoSession /\ ~e.ret /\ g.ret.expiresAt - t > 0
      THEN [prompt |-> IF g.ret.expiresAt - t > PROMPT_BEFORE
                       THEN g.ret.expiresAt - PROMPT_BEFORE ELSE NoTimer,
            timeout |-> g.ret.expiresAt]
      ELSE Unarmed

ActivityEvents ==
  {"mousedown", "mousemove", "keypress", "scroll", "touchstart", "click"}

\* the refs and listeners of component k after its resetTimer left timers
SetTimers(k, timers) ==
  /\ timeoutRef' = [timeoutRef EXCEPT ![k] = timers.timeout]
  /\ promptRef' = [promptRef EXCEPT ![k] = timers.prompt]
  /\ lastActivityRef' = [lastActivityRef EXCEPT ![k] = time]

\* the effects that re-run when the provider renders with the state new:
\* AuthProvider's listener effect when resetTimer changed (isAuthenticated
\* or isLoading did), the hook's whenever the context's logout changed
\* (every render).  Each is its cleanup followed by resetTimer().  `reset`
\* tells that the handler called the mount render's resetTimer on the way,
\* which clears both timers and arms none.
Effects(new, reset) ==
  LET changed == <<new.isAuthenticated, new.isLoading>>
                   # <<state.isAuthenticated, state.isLoading>>
      provider == IF mounted["AuthProvider"] = "yes" /\ changed
                  THEN providerResetTimer(new, time)
                  ELSE IF reset THEN Unarmed
                  ELSE [prompt |-> promptRef["AuthProvider"],
                        timeout |-> timeoutRef["AuthProvider"]]
      hook == IF mounted["useSessionTimeout"] = "yes"
              THEN hookResetTimer(new, time)
              ELSE [prompt |-> promptRef["useSessionTimeout"],
                    timeout |-> timeoutRef["useSessionTimeout"]]
  IN  /\ timeoutRef' = [AuthProvider |-> provider.timeout,
                        useSessionTimeout |-> hook.timeout]
      /\ promptRef' = [AuthProvider |-> provider.prompt,
                       useSessionTimeout |-> hook.prompt]
      /\ lastActivityRef' =
           [AuthProvider |-> IF (mounted["AuthProvider"] = "yes" /\ changed) \/ reset
                             THEN time ELSE lastActivityRef["AuthProvider"],
            useSessionTimeout |-> IF mounted["useSessionTimeout"] = "yes"
                                  THEN time ELSE lastActivityRef["useSessionTimeout"]]
      /\ UNCHANGED <<listeners, mounted>>

\* the handler dispatched actions: React runs the reducer and renders, unless
\* the provider is unmounted
Dispatch(actions, reset) ==
  IF mounted["AuthProvider"] = "yes"
  THEN /\ state' = Reduce(state, actions)
       /\ Effects(Reduce(state, actions), reset)
  ELSE /\ state' = state
       /\ Effects(state, reset)

\* initializeAuth from the answer of validateStoredSession on: the storage
\* it leaves, what it dispatches, and whether it called resetTimer
initializeAuthEnd(valid, st, t) ==
  LET u == getStoredUser(st, t)
  IN  IF valid /\ u.ret # NoItem
      THEN [storage |-> u.storage, reset |-> TRUE,
            actions |-> <<With("SET_AUTHENTICATED", u.ret)>>]
      ELSE [storage |-> clearSession(st), reset |-> FALSE,
            actions |-> <<Plain("SET_UNAUTHENTICATED")>>]

\* AuthProvider mounts: its first effect calls initializeAuth(), which runs
\* up to the await of validateStoredSession or to its end; its second effect
\* registers the activity listeners and calls resetTimer()
mountAuthProvider(c) ==
  LET g == getSession(storage, time)
      e == isSessionExpired(g.storage, time)
      v == validateBegin(e.storage, time, isValidatingSession, lastValidationTime)
      f == initializeAuthEnd(v.ret, v.storage, time)
      loading == With("SET_LOADING", TRUE)
      done == [op |-> "initializeAuth", call |-> c, asked |-> FALSE]
  IN  /\ mounted["AuthProvider"] = "no"
      /\ Free(c)
      /\ IF g.ret = NoSession
         THEN /\ storage' = g.storage
              /\ state' = Reduce(state, <<loading, Plain("SET_UNAUTHENTICATED")>>)
              /\ out' = done
              /\ UNCHANGED <<isValidatingSession, lastValidationTime, calls>>
         ELSE IF e.ret
         THEN /\ storage' = clearSession(e.storage)
              /\ state' = Reduce(state, <<loading, Plain("SET_UNAUTHENTICATED")>>)
              /\ out' = done
              /\ UNCHANGED <<isValidatingSession, lastValidationTime, calls>>
         ELSE IF v.awaits
         THEN /\ storage' = v.storage
              /\ isValidatingSession' = v.flag
              /\ lastValidationTime' = v.last
              /\ state' = Reduce(state, <<loading>>)
              /\ calls' = (c :> [kind |-> "initializeAuth",
                                 authorization |-> requestInterceptor(v.storage)])
                          @@ calls
              /\ out' = Sent(c, "validateStoredSession")
         ELSE /\ storage' = f.storage
              /\ state' = Reduce(state, <<loading>> \o f.actions)
              /\ out' = done
              /\ UNCHANGED <<isValidatingSession, lastValidationTime, calls>>
      /\ mounted' = [mounted EXCEPT !["AuthProvider"] = "yes"]
      /\ listeners' = [listeners EXCEPT !["AuthProvider"] = ActivityEvents]
      /\ SetTimers("AuthProvider", providerResetTimer(state', time))
      /\ UNCHANGED <<time, pathname>>

\* the validation request of initializeAuth settles
initializeAuthSettles(c, response) ==
  LET i == responseInterceptor(storage, pathname, response)
      v == validateEnd(i.storage, time, response)
      f == initializeAuthEnd(v.ret, v.storage, time)
  IN  /\ ~Free(c)
      /\ calls[c].kind = "initializeAuth"
      /\ storage' = f.storage
      /\ pathname' = i.pathname
      /\ isValidatingSession' = FALSE
      /\ calls' = Drop(c)
      /\ Dispatch(f.actions, f.reset)
      /\ out' = [op |-> "initializeAuth", call |-> c, asked |-> TRUE,
                 status |-> response.status]
      /\ UNCHANGED <<time, lastValidationTime>>

\* what login and register dispatch for a failure
Fallback == [login |-> "Login failed", register |-> "Registration failed"]

\* AuthProvider.login, AuthProvider.register up to the await
providerCall(c, kind) ==
  /\ mounted["AuthProvider"] = "yes"
  /\ Free(c)
  /\ Dispatch(<<With("SET_LOADING", TRUE), Plain("CLEAR_ERROR")>>, FALSE)
  /\ calls' = (c :> [kind |-> kind, by |-> "AuthProvider",
                     authorization |-> requestInterceptor(storage)])
              @@ calls
  /\ out' = Sent(c, kind)
  /\ UNCHANGED <<storage, time, isValidatingSession, lastValidationTime, pathname>>

\* AuthProvider.login, AuthProvider.register after the await
providerSettles(c, response) ==
  LET i == responseInterceptor(storage, pathname, response)
      kind == calls[c].kind
  IN  /\ ~Free(c)
      /\ kind \in {"login", "register"}
      /\ calls[c].by = "AuthProvider"
      /\ storage' = IF ~IsError(response)
                    THEN sessionFrom(i.storage, time, response)
                    ELSE i.storage
      /\ pathname' = i.pathname
      /\ calls' = Drop(c)
      /\ IF ~IsError(response) /\ response.success /\ response.user # NoItem
         THEN Dispatch(<<With("SET_AUTHENTICATED", response.user)>>, FALSE)
         ELSE Dispatch(<<With("SET_ERROR", Fallback[kind])>>, FALSE)
      /\ out' = [op |-> kind, call |-> c, by |-> "AuthProvider",
                 status |-> response.status]
      /\ UNCHANGED <<time, isValidatingSession, lastValidationTime>>

\* AuthProvider.logout
logoutProvider ==
  /\ mounted["AuthProvider"] = "yes"
  /\ storage' = clearSession(storage)
  /\ Dispatch(<<Plain("SET_UNAUTHENTICATED"), Plain("CLEAR_ERROR")>>, FALSE)
  /\ out' = [op |-> "logout", by |-> "AuthProvider"]
  /\ UNCHANGED <<time, isValidatingSession, lastValidationTime, pathname, calls>>

\* AuthProvider.refreshUser up to the await
refreshUser(c) ==
  /\ mounted["AuthProvider"] = "yes"
  /\ Free(c)
  /\ calls' = (c :> [kind |-> "refreshUser",
                     authorization |-> requestInterceptor(storage)])
              @@ calls
  /\ out' = Sent(c, "getCurrentUser")
  /\ UNCHANGED <<storage, time, isValidatingSession, lastValidationTime,
                 pathname, state, timing>>

\* AuthProvider.refreshUser after the await
refreshUserSettles(c, response) ==
  LET i == responseInterceptor(storage, pathname, response)
      failed == With("SET_ERROR", "Failed to refresh user data")
      u == updateStoredUser(i.storage, time, response.user)
  IN  /\ ~Free(c)
      /\ calls[c].kind = "refreshUser"
      /\ pathname' = i.pathname
      /\ calls' = Drop(c)
      /\ IF ~IsError(response)
         THEN IF response.success /\ response.user # NoItem
              THEN /\ storage' = u.storage
                   /\ Dispatch(<<With("UPDATE_USER", response.user)>>, FALSE)
              ELSE /\ storage' = clearSession(i.storage)
                   /\ Dispatch(<<Plain("SET_UNAUTHENTICATED")>>, FALSE)
         ELSE IF response.status = 401
         THEN /\ storage' = clearSession(i.storage)
              /\ Dispatch(<<Plain("SET_UNAUTHENTICATED"), failed>>, FALSE)
         ELSE /\ storage' = i.storage
              /\ Dispatch(<<failed>>, FALSE)
      /\ out' = [op |-> "refreshUser", call |-> c, status |-> response.status]
      /\ UNCHANGED <<time, isValidatingSession, lastValidationTime>>

\* resetTimer of component k, of the render that saw the current state
resetTimer(k) ==
  IF k = "AuthProvider" THEN providerResetTimer(state, time)
  ELSE hookResetTimer(state, time)

\* a component using useSessionTimeout mounts under the provider: the mount
\* effect arms timers from the stored session, the listener effect registers
\* the activity listeners and calls resetTimer(), the last effect listens to
\* visibilitychange
mountHook ==
  LET g == getSession(storage, time)
      e == isSessionExpired(g.storage, time)
      first == hookMountTimers(storage, time)
  IN  /\ mounted["AuthProvider"] = "yes"
      /\ mounted["useSessionTimeout"] = "no"
      /\ storage' = e.storage
      /\ mounted' = [mounted EXCEPT !["useSessionTimeout"] = "yes"]
      /\ listeners' = [listeners EXCEPT !["useSessionTimeout"] =
                         ActivityEvents \cup {"visibilitychange"}]
      /\ SetTimers("useSessionTimeout", resetTimer("useSessionTimeout"))
      /\ out' = [op |-> "mount", component |-> "useSessionTimeout",
                 first |-> first]
      /\ UNCHANGED <<time, isValidatingSession, lastValidationTime, pathname,
                     state, calls>>

\* the document fires an event that component k listens to: handleActivity,
\* or handleVisibilityChange with the document hidden or not
activity(k, event, hidden) ==
  /\ event \in listeners[k]
  /\ IF event = "visibilitychange" /\ hidden
     THEN UNCHANGED <<timeoutRef, promptRef, lastActivityRef>>
     ELSE SetTimers(k, resetTimer(k))
  /\ out' = [op |-> "activity", component |-> k, event |-> event,
             reset |-> ~(event = "visibilitychange" /\ hidden)]
  /\ UNCHANGED <<browser, state, calls, listeners, mounted>>

\* the cleanups of component k that leave the forced-logout timer pending
cleanup_KeepTimeout(k) ==
  /\ mounted[k] = "yes"
  /\ mounted' = [j \in Components |->
                   IF j = k \/ k = "AuthProvider"
                   THEN (IF mounted[j] = "yes" THEN "gone" ELSE mounted[j])
                   ELSE mounted[j]]
  /\ listeners' = [j \in Components |-> IF mounted'[j] = "gone" THEN {} ELSE listeners[j]]
  /\ promptRef' = [j \in Components |->
                     IF mounted'[j] = "gone" THEN NoTimer ELSE promptRef[j]]
  /\ out' = [op |-> "unmount", component |-> k,
             timers |-> {j \in Components :
                          mounted'[j] # mounted[j] /\ timeoutRef[j] # NoTimer}]
  /\ UNCHANGED <<browser, state, calls, timeoutRef, lastActivityRef>>

\* component k is torn down, and with the provider the hook below it: the
\* cleanups of its effects run
cleanup(k) ==
  /\ mounted[k] = "yes"
  /\ mounted' = [j \in Components |->
                   IF j = k \/ k = "AuthProvider"
                   THEN (IF mounted[j] = "yes" THEN "gone" ELSE mounted[j])
                   ELSE mounted[j]]
  /\ listeners' = [j \in Components |-> IF mounted'[j] = "gone" THEN {} ELSE listeners[j]]
  /\ timeoutRef' = [j \in Components |->
                      IF mounted'[j] = "gone" THEN NoTimer ELSE timeoutRef[j]]
  /\ promptRef' = [j \in Components |->
                     IF mounted'[j] = "gone" THEN NoTimer ELSE promptRef[j]]
  /\ out' = [op |-> "unmount", component |-> k,
             timers |-> {j \in Components :
                          mounted'[j] # mounted[j] /\ timeoutRef[j] # NoTimer}]
  /\ UNCHANGED <<browser, state, calls, lastActivityRef>>

\* the warning timer of component k fires: handleSessionPrompt, onPrompt
promptFires(k) ==
  /\ promptRef[k] = time
  /\ promptRef' = [promptRef EXCEPT ![k] = NoTimer]
  /\ out' = [op |-> "prompt", component |-> k, mounted |-> mounted[k]]
  /\ UNCHANGED <<browser, state, calls, timeoutRef, listeners, mounted,
                 lastActivityRef>>

\* the forced-logout timer of component k fires: handleSessionTimeout of the
\* provider (armed by a render that saw isAuthenticated), or onTimeout and
\* the context's logout() for the hook
timeoutFires(k) ==
  /\ timeoutRef[k] = time
  /\ storage' = clearSession(storage)
  /\ IF mounted["AuthProvider"] = "yes"
     THEN /\ state' = Reduce(state, IF k = "AuthProvider"
                                    THEN <<Plain("SET_UNAUTHENTICATED")>>
                                    ELSE <<Plain("SET_UNAUTHENTICATED"),
                                           Plain("CLEAR_ERROR")>>)
          /\ timeoutRef' = [j \in Components |-> NoTimer]
          /\ promptRef' = [j \in Components |-> NoTimer]
          /\ lastActivityRef' = [j \in Components |->
                                   IF mounted[j] = "yes" THEN time
                                   ELSE lastActivityRef[j]]
     ELSE /\ timeoutRef' = [timeoutRef EXCEPT ![k] = NoTimer]
          /\ UNCHANGED <<state, promptRef, lastActivityRef>>
  /\ out' = [op |-> "timeout", component |-> k, mounted |-> mounted[k],
             last |-> lastActivityRef[k]]
  /\ UNCHANGED <<time, isValidatingSession, lastValidationTime, pathname,
                 calls, listeners, mounted>>

\* the page is loaded with an empty localStorage, no component mounted yet
InitClient ==
  /\ storage = [authSession |-> NoSession, authToken |-> NoItem]
  /\ time = VALIDATION_COOLDOWN
  /\ isValidatingSession = FALSE
  /\ lastValidationTime = 0
  /\ pathname = "/login"
  /\ state = initialState
  /\ calls = << >>
  /\ timeoutRef = [k \in Components |-> NoTimer]
  /\ promptRef = [k \in Components |-> NoTimer]
  /\ listeners = [k \in Components |-> {}]
  /\ mounted = [k \in Components |-> "no"]
  /\ lastActivityRef = [k \in Components |-> VALIDATION_COOLDOWN]
  /\ out = Quiet

----------------------------------------------------------------------------
Init ==
  /\ users = << >>
  /\ nextId = 1
  /\ now = 0
  /\ held = {}
  /\ registered = << >>
  /\ req = Idle
  /\ res = NoResponse
  /\ since = {}
  /\ requestCounts = << >>
  /\ clock = 0
  /\ admitted = [k \in IPs \X LimitedRoutes \X (0..MaxClock) |-> 0]
  /\ pending = << >>
  /\ InitClient

Next ==
  \/ \E body \in SessionRegisterBodies : register(body) /\ UNCHANGED <<since, limiter, pending, client>>
  \/ \E body \in SessionLoginBodies : login(body) /\ UNCHANGED <<since, limiter, pending, client>>
  \/ \E h \in Headers : getMe(h) /\ UNCHANGED <<since, limiter, pending, client>>
  \/ \E h \in Headers : getProfile(h) /\ UNCHANGED <<since, limiter, pending, client>>
  \/ \E h \in Headers, body \in SessionUpdateBodies :
       updateProfile(h, body) /\ UNCHANGED <<since, limiter, pending, client>>
  \/ \E h \in Headers : deleteProfile(h) /\ UNCHANGED <<since, limiter, pending, client>>
  \/ Tick /\ UNCHANGED <<since, limiter, pending, client>>
  \/ \E id \in DOMAIN users : RemoveRecord(id) /\ UNCHANGED <<since, limiter, pending, client>>

Spec == Init /\ [][Next]_vars

NextStore ==
  \/ \E body \in RegisterBodies : register(body) /\ UNCHANGED <<since, limiter, pending, client>>
  \/ \E body \in LoginBodies : login(body) /\ UNCHANGED <<since, limiter, pending, client>>
  \/ \E h \in Headers : getMe(h) /\ UNCHANGED <<since, limiter, pending, client>>
  \/ \E h \in Headers : getProfile(h) /\ UNCHANGED <<since, limiter, pending, client>>
  \/ \E h \in Headers, body \in UpdateBodies :
       updateProfile(h, body) /\ UNCHANGED <<since, limiter, pending, client>>
  \/ \E h \in Headers : deleteProfile(h) /\ UNCHANGED <<since, limiter, pending, client>>

SpecStore == Init /\ [][NextStore]_vars

NextProfile ==
  \/ \E body \in ProfileRegisterBodies : register(body) /\ UNCHANGED <<since, limiter, pending, client>>
  \/ \E body \in ProfileLoginBodies : login(body) /\ UNCHANGED <<since, limiter, pending, client>>
  \/ \E h \in ProfileHeaders : getProfile(h) /\ UNCHANGED <<since, limiter, pending, client>>
  \/ \E h \in ProfileHeaders, body \in ProfileUpdateBodies :
       updateProfile(h, body) /\ UNCHANGED <<since, limiter, pending, client>>

SpecProfile == Init /\ [][NextProfile]_vars

NextStateless ==
  \/ \E body \in StatelessRegisterBodies : register(body) /\ TrackOnly
  \/ \E body \in StatelessLoginBodies : login(body) /\ TrackOnly
  \/ \E h \in ProfileHeaders : getMe(h) /\ TrackOnly
  \/ \E h \in ProfileHeaders : getProfile(h) /\ TrackOnly
  \/ \E h \in ProfileHeaders, body \in StatelessUpdateBodies :
       updateProfile(h, body) /\ TrackOnly
  \/ \E h \in ProfileHeaders : deleteProfile(h) /\ TrackOnly
  \/ logout /\ TrackOnly
  \/ Tick /\ TrackOnly

SpecStateless == Init /\ [][NextStateless]_vars

NextLimit ==
  \/ \E ip \in IPs, body \in LimitRegisterBodies :
       registerRoute(ip, body) /\ UNCHANGED <<since, clock, pending, client>>
  \/ \E ip \in IPs, body \in LimitLoginBodies :
       loginRoute(ip, body) /\ UNCHANGED <<since, clock, pending, client>>
  \/ Advance /\ UNCHANGED <<since, pending, client>>

SpecLimit == Init /\ [][NextLimit]_vars

\* the interleaving specification: two register requests in flight, with
\* equal and with different emails, valid and not
RaceRegisterBodies ==
  {ValidBody("a@b.com", Abcd123), ValidBody("A@B.com", Abcd123),
   ValidBody("c@d.com", Abcd123),
   [ValidBody("e@f.com", Abcd123) EXCEPT !.expectedCTC = 0],
   ValidBody("not-an-email", Abcd123)}

NextRace ==
  \/ \E r \in InFlight, body \in RaceRegisterBodies :
       registerCheck(r, body) /\ UNCHANGED <<since, limiter, client>>
  \/ \E r \in DOMAIN pending : registerSave(r) /\ UNCHANGED <<since, limiter, client>>

SpecRace == Init /\ [][NextRace]_vars

\* the session specification: the calls components make of authService,
\* against a server that answers anything
SessionResponses ==
  {Ok("u1", "t1"), Ok("u2", NoItem), Ok(NoItem, NoItem),
   Failed(401), Failed(404), Failed(403), Failed(500), NetworkError}

Backend ==
  <<users, nextId, now, held, registered, req, res, since, limiter, pending>>

ServiceOnly == UNCHANGED <<Backend, state, timing>>

NextSession ==
  \/ callGetSession /\ ServiceOnly
  \/ callRefreshSession /\ ServiceOnly
  \/ \E user \in UserObjects : callUpdateStoredUser(user) /\ ServiceOnly
  \/ callLogout /\ ServiceOnly
  \/ \E c \in CallIds : validateStoredSession(c) /\ ServiceOnly
  \/ \E c \in CallIds, response \in SessionResponses :
       validateSettles(c, response) /\ ServiceOnly
  \/ \E c \in CallIds, kind \in {"login", "getCurrentUser"} :
       apiCall(c, kind) /\ ServiceOnly
  \/ \E c \in CallIds, response \in SessionResponses :
       apiSettles(c, response) /\ ServiceOnly
  \/ \E path \in {"/login", "/profile"} : navigate(path) /\ ServiceOnly
  \/ passTime /\ ServiceOnly

SpecSession == Init /\ [][NextSession]_vars

\* the provider specification: AuthProvider mounts, on a page that may have
\* logged in through authService before, and its login, register, logout
\* and refreshUser are called in any order, against a server that answers
\* anything
ProviderResponses ==
  {Ok("u1", "t1"), Ok("u2", NoItem), Ok(NoItem, NoItem),
   Failed(401), Failed(500), NetworkError}

ProviderOnly == UNCHANGED Backend

NextProvider ==
  \/ \E c \in CallIds : mountAuthProvider(c) /\ ProviderOnly
  \/ \E c \in CallIds, response \in ProviderResponses :
       initializeAuthSettles(c, response) /\ ProviderOnly
  \/ \E c \in CallIds, kind \in {"login", "register"} :
       providerCall(c, kind) /\ ProviderOnly
  \/ \E c \in CallIds, response \in ProviderResponses :
       providerSettles(c, response) /\ ProviderOnly
  \/ logoutProvider /\ ProviderOnly
  \/ \E c \in CallIds : refreshUser(c) /\ ProviderOnly
  \/ \E c \in CallIds, response \in ProviderResponses :
       refreshUserSettles(c, response) /\ ProviderOnly
  \/ \E c \in CallIds :
       apiCall(c, "login") /\ UNCHANGED <<state, timing>> /\ ProviderOnly
  \/ \E c \in CallIds, response \in {Ok("u1", "t1")} :
       apiSettles(c, response) /\ UNCHANGED <<state, timing>> /\ ProviderOnly

SpecProvider == Init /\ [][NextProvider]_vars

\* the request of call c settles
SettleCall(c) ==
  \E response \in ProviderResponses :
    \/ initializeAuthSettles(c, response) /\ ProviderOnly
    \/ providerSettles(c, response) /\ ProviderOnly
    \/ refreshUserSettles(c, response) /\ ProviderOnly
    \/ apiSettles(c, response) /\ UNCHANGED <<state, timing>> /\ ProviderOnly

\* the provider specification in which every request settles
SpecProviderLive ==
  Init /\ [][NextProvider]_vars /\ \A c \in CallIds : WF_vars(SettleCall(c))

\* the timer specification: the provider and the hook mount, the user logs
\* in and out and is active or not, time passes, the components are torn
\* down
TimerResponses == {Ok("u1", "t1"), Failed(401)}

\* one call waits for the server at a time
TimerCalls == {"c1"}

NextTimers ==
  \/ \E c \in TimerCalls : mountAuthProvider(c) /\ ProviderOnly
  \/ \E c \in TimerCalls, response \in TimerResponses :
       initializeAuthSettles(c, response) /\ ProviderOnly
  \/ mountHook /\ ProviderOnly
  \/ \E c \in TimerCalls : providerCall(c, "login") /\ ProviderOnly
  \/ \E c \in TimerCalls, response \in TimerResponses :
       providerSettles(c, response) /\ ProviderOnly
  \/ logoutProvider /\ ProviderOnly
  \/ \E k \in Components, event \in {"click", "visibilitychange"}, hidden \in BOOLEAN :
       activity(k, event, hidden) /\ ProviderOnly
  \/ \E k \in Components : promptFires(k) /\ ProviderOnly
  \/ \E k \in Components : timeoutFires(k) /\ ProviderOnly
  \/ \E k \in Components : cleanup(k) /\ ProviderOnly
  \/ \E c \in TimerCalls :
       apiCall(c, "login") /\ UNCHANGED <<state, timing>> /\ ProviderOnly
  \/ \E c \in TimerCalls, response \in {Ok("u1", "t1")} :
       apiSettles(c, response) /\ UNCHANGED <<state, timing>> /\ ProviderOnly
  \/ passTime /\ UNCHANGED <<state, timing>> /\ ProviderOnly

SpecTimers == Init /\ [][NextTimers]_vars

----------------------------------------------------------------------------
(* Properties.  A request's token state is taken before the request is     *)
(* answered; in the state a response is seen in, `now` is the time of the  *)
(* request, since the clock's step clears the response.                    *)

ProtectedRoutes == {"GET /auth/me", "GET /profile", "PUT /profile", "DELETE /profile"}

\* a compact JWT signed with the server's secret
WellSigned(h) ==
  /\ h.scheme = "Bearer"
  /\ h.token.kind = "jwt"
  /\ h.token.sig = JWT_SECRET

\* the four token states of the session issuer
TokenState(h) ==
  IF ~WellSigned(h) THEN "malformed-or-unsigned"
  ELSE IF now >= h.token.iat + JWT_EXPIRES_IN THEN "expired"
  ELSE IF h.token.userId \notin DOMAIN users THEN "valid-but-unresolvable"
  ELSE "valid-and-resolvable"

\* C1: a request to a protected route whose token is expired, malformed or
\* unsigned (a missing or non-Bearer header included) or valid but
\* unresolvable is answered 401 by authenticate, the route handler is not
\* called, and the store is left unchanged.
C1_UnauthenticatedIs401 ==
  [][(/\ req'.route \in ProtectedRoutes
      /\ TokenState(req'.auth) # "valid-and-resolvable")
     => (/\ res'.status = 401
         /\ res'.handler = FALSE
         /\ users' = users)]_vars

C1_Witness ==
  /\ req.route = "PUT /profile"
  /\ TokenState(req.auth) = "expired"
  /\ req.auth.token.userId \in DOMAIN users
  /\ res.status = 401
  /\ res.handler = FALSE

\* C2: a validly signed, unexpired token whose userId resolves to no stored
\* document is rejected with 401 and the protected handler is not run.
C2_UnresolvableRejected ==
  (/\ req.route \in ProtectedRoutes
   /\ WellSigned(req.auth)
   /\ now < req.auth.token.exp
   /\ req.auth.token.userId \notin DOMAIN users)
  => (res.status = 401 /\ res.handler = FALSE)

C2_Witness ==
  /\ req.route = "GET /profile"
  /\ WellSigned(req.auth)
  /\ now < req.auth.token.exp
  /\ req.auth.token.userId \notin DOMAIN users
  /\ res = Json(401, FALSE, "Token is not valid. User not found.") @@ [handler |-> FALSE]

\* C3: while the user's document exists, a token issued at time T is accepted
\* by authenticate at every time in [T, T + E) and rejected with 401 at every
\* time from T + E on, E the configured expiry.
C3_AcceptedUntilExpiry ==
  (/\ req.route \in ProtectedRoutes
   /\ WellSigned(req.auth)
   /\ req.auth.token.userId \in DOMAIN users)
  => IF now < req.auth.token.iat + JWT_EXPIRES_IN
     THEN res.handler = TRUE
     ELSE res.status = 401 /\ res.handler = FALSE

C3_Witness ==
  /\ req.route = "GET /auth/me"
  /\ WellSigned(req.auth)
  /\ req.auth.token.userId \in DOMAIN users
  /\ now = req.auth.token.iat + JWT_EXPIRES_IN
  /\ res.status = 401

\* C4: a token that register or login returned for user U, presented to
\* GET /auth/me before its expiry while U's document exists, yields 200 with
\* U's _id and email, not another user's.
C4_MeReturnsTokenOwner ==
  (/\ req.route = "GET /auth/me"
   /\ WellSigned(req.auth)
   /\ now < req.auth.token.iat + JWT_EXPIRES_IN
   /\ req.auth.token.userId \in DOMAIN users)
  => (/\ res.status = 200
      /\ res.user._id = req.auth.token.userId
      /\ res.user.email = req.auth.token.email
      /\ res.user.email = users[req.auth.token.userId].email)

C4_Witness ==
  /\ req.route = "GET /auth/me"
  /\ WellSigned(req.auth)
  /\ Cardinality(DOMAIN users) = 2
  /\ req.auth.token.userId = 2
  /\ res.status = 200
  /\ res.user.email = users[2].email

\* C5: a token is sent only in the response to a register call that stored
\* a new document (the token names it), or to a login call for which a
\* document with the given email exists and the password verified against
\* its hash; no other response of any endpoint carries a token.
C5_TokenOnlyOnRegisterOrLogin ==
  [][Has(res', "token")
     => \/ /\ req'.route = "POST /auth/register"
           /\ res'.token.userId \in DOMAIN users' \ DOMAIN users
        \/ /\ req'.route = "POST /auth/login"
           /\ \E id \in DOMAIN users :
                /\ id = res'.token.userId
                /\ users[id].email = LowerCaseEmail(req'.body.email)
                /\ BcryptCompare(req'.body.password, users[id].password)]_vars

C5_Witness ==
  /\ req.route = "POST /auth/login"
  /\ Has(res, "token")
  /\ res.token.userId = 2
  /\ res.status = 200

\* the email of a register body belongs to a stored document (emails are
\* case-insensitive)
EmailStored(body) ==
  /\ Has(body, "email")
  /\ \E id \in DOMAIN users : users[id].email = LowerCaseEmail(body.email)

UniqueEmails(u) ==
  \A i, j \in DOMAIN u : u[i].email = u[j].email => i = j

C7_WrongPasswordIs401 ==
  (/\ req.route = "POST /auth/login"
   /\ loginValidation(req.body) = {}
   /\ \E id \in DOMAIN users :
        /\ users[id].email = LowerCaseEmail(req.body.email)
        /\ registered[id] # req.body.password)
  => res = Json(401, FALSE, "Invalid email or password")

\* the passwords a client may try
Candidates == {Abcd123, Wrong789, LongA, LongB, WeakPassword}

\* C8 (as stated): after a successful registration with password p the stored
\* password value differs from p, and comparePassword(candidate) on the stored
\* document is true only for candidate = p.
C8_CompareOnlyOriginal ==
  (req.route = "POST /auth/register" /\ res.status = 201)
  => /\ users[res.user._id].password # req.body.password
     /\ \A c \in Candidates :
          comparePassword(users[res.user._id], c) => c = req.body.password

\* C9: no response of any endpoint, error responses included, carries the
\* stored password hash: the user / data object has no password path, and the
\* envelope has no other member that could hold it.
C9_NoHashInResponse ==
  /\ DOMAIN res \subseteq
       {"status", "success", "message", "errors", "user", "data", "token", "handler"}
  /\ \A k \in {"user", "data"} \cap DOMAIN res : "password" \notin DOMAIN res[k]

C9_Witness ==
  /\ req.route = "POST /auth/login"
  /\ res.status = 200
  /\ Has(users[res.user._id], "password")
  /\ ~Has(res.user, "password")

\* the paths PUT /profile must never touch
ProtectedPaths == {"email", "password", "isEmailVerified", "_id"}

Changed(old, new, f) ==
  \/ f \notin DOMAIN old
  \/ f \notin DOMAIN new
  \/ old[f] # new[f]

C11_OnlyOwnerModifies ==
  [][\A id \in DOMAIN users \cap DOMAIN users' :
       users'[id] # users[id]
       => /\ req'.route = "PUT /profile"
          /\ WellSigned(req'.auth)
          /\ req'.auth.token.userId = id
          /\ req'.auth.token.email = users[id].email]_vars

C11_Witness ==
  /\ req.route = "PUT /profile"
  /\ res.status = 200
  /\ Cardinality(DOMAIN users) = 2
  /\ req.auth.token.userId = 2
  /\ users[2].name = NewName
  /\ users[1].name = AdaName

\* C12 (as stated): every stored document that has both currentCTC and
\* expectedCTC satisfies expectedCTC >= currentCTC.
C12_ExpectedAtLeastCurrent ==
  \A id \in DOMAIN users :
    (Has(users[id], "currentCTC") /\ Has(users[id], "expectedCTC"))
    => users[id].expectedCTC >= users[id].currentCTC

\* C13 (as stated): every stored document with noticePeriod = "Yes" has a
\* noticePeriodDays value.
C13_NoticeDaysWhenYes ==
  \A id \in DOMAIN users :
    (Has(users[id], "noticePeriod") /\ users[id].noticePeriod = "Yes")
    => Has(users[id], "noticePeriodDays")

\* the routes that write profile fields
WriteRoutes == {"POST /auth/register", "PUT /profile"}

\* the request was handed to the controller of its route
ReachedController(rq, rs) ==
  \/ rq.route = "POST /auth/register"
  \/ rq.route = "PUT /profile" /\ rs.handler = TRUE

Without(r, f) == [g \in DOMAIN r \ {f} |-> r[g]]

\* a body that, noticePeriodDays left aside, the route accepts for the
\* caller: no other field fails, and a register body brings a new email
AcceptableButForDays(rq) ==
  LET rest == Without(rq.body, "noticePeriodDays")
  IN  IF rq.route = "POST /auth/register"
      THEN /\ registerValidation(rest) = {}
           /\ validateDocument(NewUser(rest)) = {}
           /\ ~EmailStored(rest)
      ELSE DOMAIN rest = {"noticePeriod"}

\* C14 (as stated): on register and on PUT /profile a request with
\* noticePeriod = "Yes" and no noticePeriodDays is rejected, and a request
\* with noticePeriod = "No" that carries a valid noticePeriodDays is accepted.
C14_NoticeRule ==
  [][(/\ req'.route \in WriteRoutes
      /\ ReachedController(req', res')
      /\ Has(req'.body, "noticePeriod"))
     => /\ (req'.body.noticePeriod = "Yes" /\ ~Has(req'.body, "noticePeriodDays"))
           => (res'.success = FALSE /\ users' = users)
        /\ (/\ req'.body.noticePeriod = "No"
            /\ Has(req'.body, "noticePeriodDays")
            /\ req'.body.noticePeriodDays \in 0..MaxNoticeDays
            /\ AcceptableButForDays(req'))
           => res'.success = TRUE]_vars

\* the per-field constraints a request body violates, by field
Violations(body) ==
  {f \in {"name"} \cap DOMAIN body : Len(body.name) < 2 \/ Len(body.name) > 50}
  \cup {f \in {"designation"} \cap DOMAIN body : body.designation \notin Designations}
  \cup {f \in {"currentCTC"} \cap DOMAIN body : body.currentCTC \notin 0..MaxCTC}
  \cup {f \in {"expectedCTC"} \cap DOMAIN body :
          \/ body.expectedCTC \notin 0..MaxCTC
          \/ Has(body, "currentCTC") /\ body.expectedCTC < body.currentCTC}
  \cup {f \in {"noticePeriodDays"} \cap DOMAIN body :
          body.noticePeriodDays \notin 0..MaxNoticeDays}

\* C15 (as stated): a register or PUT /profile request that violates a
\* per-field constraint is answered 400 with an errors list naming every
\* failing field, and the store is unchanged.
C15_FieldErrorIs400 ==
  [][(/\ req'.route \in WriteRoutes
      /\ ReachedController(req', res')
      /\ Violations(req'.body) # {})
     => /\ res'.status = 400
        /\ Has(res', "errors")
        /\ Violations(req'.body) \subseteq res'.errors
        /\ users' = users]_vars

\* C16: the server keeps no session state.  A token that has been issued is
\* accepted by authenticate at every time before its expiry while its user's
\* document exists, whatever calls were made since it was issued (login,
\* register, PUT /profile, DELETE /profile, client-side logout): the check
\* would pass, and every protected request that carried it reached its handler.
C16_NoSessionState ==
  /\ \A t \in held :
       (now < t.iat + JWT_EXPIRES_IN /\ t.userId \in DOMAIN users)
       => authenticate(Bearer(t)).next
  /\ (/\ req.route \in ProtectedRoutes
      /\ WellSigned(req.auth)
      /\ now < req.auth.token.iat + JWT_EXPIRES_IN
      /\ req.auth.token.userId \in DOMAIN users)
     => res.handler = TRUE

C16_Witness ==
  /\ req.route = "GET /profile"
  /\ WellSigned(req.auth)
  /\ req.auth.token \in held
  /\ since = Events
  /\ now > req.auth.token.iat
  /\ res.status = 200
  /\ res.handler = TRUE

\* why jwt.verify throws for the token of a Bearer header: the token is a
\* non-empty string that is no JWT, is signed with another key or unsigned,
\* or is past its expiry; "none" when it does not throw or no token is sent
VerifyFailure(h) ==
  IF h.scheme # "Bearer" \/ h.token.kind = "empty" THEN "none"
  ELSE IF h.token.kind # "jwt" THEN "malformed"
  ELSE IF h.token.sig # JWT_SECRET THEN "bad-signature"
  ELSE IF now >= h.token.exp THEN "expired"
  ELSE "none"

\* C17: for a malformed token, an expired token and a token with a bad
\* signature authenticate sends one and the same response, 401 with
\* { success: false, message: 'Token is not valid.' }, and does not call the
\* handler, so that the three failures cannot be told apart.
C17_OneInvalidResponse ==
  (req.route \in ProtectedRoutes /\ VerifyFailure(req.auth) # "none")
  => res = Json(401, FALSE, "Token is not valid.") @@ [handler |-> FALSE]

C17_Witness ==
  /\ req.route = "DELETE /profile"
  /\ VerifyFailure(req.auth) = "expired"
  /\ req.auth.token.userId \in DOMAIN users
  /\ res = Json(401, FALSE, "Token is not valid.") @@ [handler |-> FALSE]

RECURSIVE AdmittedBetween(_, _, _, _)
AdmittedBetween(clientIP, route, from, to) ==
  IF from > to THEN 0
  ELSE (IF from \in 0..MaxClock THEN admitted[<<clientIP, route, from>>] ELSE 0)
       + AdmittedBetween(clientIP, route, from + 1, to)

\* C19 (as stated): per client IP, in any interval of 15 minutes at most 3
\* POST /auth/register and at most 5 POST /auth/login requests are let past
\* the route's rate limiter; a request answered 429 does not reach the
\* controller.
C19_AtMostPerInterval ==
  [][/\ \A ip \in IPs, from \in 0..MaxClock :
          /\ AdmittedBetween(ip, "POST /auth/register", from, from + windowMs - 1)'
               <= registerMax
          /\ AdmittedBetween(ip, "POST /auth/login", from, from + windowMs - 1)'
               <= loginMax
     /\ res'.status = 429
        => (users' = users /\ admitted' = admitted /\ ~Has(res', "token"))]_vars


\* the request in flight whose handler the step resumes at its save
Saves(r) == r \in DOMAIN pending /\ r \notin DOMAIN pending'

\* the record of r's email was created while r waited for its save
LostRace(r) == FindByEmail(NormalizeEmail(pending[r].email)) # {}

\* C20 (as stated): of two register requests with one email that interleave
\* between the existence check and the save, one creates the record and the
\* other is answered as a sequential duplicate is (400 "User with this
\* email already exists"), not with a 500; no email is stored twice.
C20_ConcurrentDuplicateConflict ==
  [][/\ \A r \in InFlight :
          Saves(r) /\ LostRace(r)
            => /\ res' = Json(400, FALSE, "User with this email already exists")
               /\ users' = users
     /\ \A i, j \in DOMAIN users' : users'[i].email = users'[j].email => i = j]_vars


\* the window of windowMs that the rate limiter's clock is in
WindowStart == (clock \div windowMs) * windowMs

\* C21 (as stated): the register limit counts register requests only: a
\* POST /auth/register is answered 429 only if the same client already had
\* registerMax register requests let through in the current window, however
\* many login requests it made.
C21_RegisterCountedAlone ==
  [][(req'.route = "POST /auth/register" /\ res'.status = 429)
       => AdmittedBetween(req'.ip, "POST /auth/register",
                          WindowStart, WindowStart + windowMs - 1) >= registerMax]_vars


\* the stored session's expiresAt is earlier than the time t
ExpiredAt(st, t) == st.authSession # NoSession /\ st.authSession.expiresAt < t

\* the stored session is one that getSession returns at the time t
ValidAt(st, t) == st.authSession # NoSession /\ st.authSession.expiresAt >= t

\* C22: authService.getSession never returns a session whose expiresAt is
\* earlier than the current time: it removes authSession and authToken
\* instead; and no refreshSession, updateStoredUser or validateStoredSession
\* call makes an expired session valid again: only the session that a
\* successful login or register stores follows an expired one.
C22_ExpiredStaysExpired ==
  [][/\ out'.op = "getSession"
        => /\ out'.ret # NoSession => out'.ret.expiresAt >= time'
           /\ ExpiredAt(storage, time) => storage' = clearSession(storage)
     /\ ExpiredAt(storage, time) /\ ValidAt(storage', time')
        => out'.op \in {"login", "register"} /\ out'.status = 200]_vars

\* refreshSession met an expired session and removed it
C22_Witness ==
  /\ out.op = "refreshSession"
  /\ out.cleared
  /\ storage = [authSession |-> NoSession, authToken |-> NoItem]
  /\ time > SESSION_TIMEOUT + VALIDATION_COOLDOWN


\* C23 (as stated): once the stored session's expiresAt has passed, no
\* request the client sends carries a bearer token.
C23_NoTokenAfterExpiry ==
  [][out'.op = "request" /\ ExpiredAt(storage, time)
       => out'.authorization = NoItem]_vars


\* the step in which an API call gets its response
Settles(c) == c \in DOMAIN calls /\ c \notin DOMAIN calls'

\* C26: whenever an API response has status 401 while an authToken or an
\* authSession is stored, the client removes both and, unless it is on
\* /login already, goes to /login.
C26_UnauthorizedClearsSession ==
  [][\A c \in CallIds :
       /\ Settles(c)
       /\ out'.status = 401
       /\ (storage.authToken # NoItem \/ storage.authSession # NoSession)
       => /\ storage' = [authSession |-> NoSession, authToken |-> NoItem]
          /\ pathname' = "/login"]_vars

\* a 401 arrived for a stored session on another page than /login
C26_Witness ==
  /\ out.op = "getCurrentUser"
  /\ out.status = 401
  /\ out.redirected
  /\ pathname = "/login"
  /\ storage = [authSession |-> NoSession, authToken |-> NoItem]


\* the calls of validateStoredSession whose /auth/me request is in flight
ValidationsInFlight ==
  {c \in DOMAIN calls : calls[c].kind = "validateStoredSession"}

\* C27: under any interleaving of validateStoredSession calls at most one
\* validation request is in flight, and isValidatingSession is true exactly
\* while it is: it is false again once the request settled, with a success,
\* an error status or a network failure.
C27_OneValidationInFlight ==
  /\ Cardinality(ValidationsInFlight) <= 1
  /\ isValidatingSession <=> ValidationsInFlight # {}

\* a second call came while a validation request was in flight and was not
\* sent
C27_Witness ==
  /\ out.op = "validateStoredSession"
  /\ ~out.asked
  /\ out.ret
  /\ ValidationsInFlight # {}
  /\ time >= lastValidationTime + VALIDATION_COOLDOWN

\* a validation request failed on the network and left the flag false
C27_SettledWitness ==
  /\ out.op = "validateStoredSession"
  /\ out.asked
  /\ out.status = 0
  /\ ~isValidatingSession


\* C28 (as stated): validateStoredSession returns true only if during that
\* call the server answered its validation request with success, or the
\* request failed with a 5xx status or on the network.
C28_TrueOnlyAfterAnswer ==
  out.op = "validateStoredSession" /\ out.ret
    => /\ out.asked
       /\ \/ out.response.success
          \/ out.response.status >= 500
          \/ out.response = NetworkError


\* C29 (as stated): in every AuthProvider state, under any interleaving of
\* login, register, logout, refreshUser and initializeAuth completions,
\* state.user is non-null exactly when state.isAuthenticated is true.
C29_UserIffAuthenticated ==
  state.user # NoItem <=> state.isAuthenticated


\* call c of initializeAuth, login or register waits for the server
Loading(c) ==
  /\ c \in DOMAIN calls
  /\ \/ calls[c].kind = "initializeAuth"
     \/ calls[c].kind \in {"login", "register"} /\ calls[c].by = "AuthProvider"

\* call c of initializeAuth, login or register has just returned
Returned(c) ==
  /\ out.op \in {"initializeAuth", "login", "register"}
  /\ out.call = c
  /\ out.op = "initializeAuth" \/ out.by = "AuthProvider"

\* C30: every initializeAuth, login and register call of AuthProvider, once
\* its request settles, whatever the server answered, returns with
\* state.isLoading false.
C30_LoadingEnds ==
  /\ [](\A c \in CallIds : Returned(c) => ~state.isLoading)
  /\ \A c \in CallIds : Loading(c) ~> (Returned(c) /\ ~state.isLoading)

\* a login whose request failed on the network left isLoading false
C30_Witness ==
  /\ Returned("c2")
  /\ out.op = "login"
  /\ out.status = 0
  /\ state.error = "Login failed"
  /\ ~state.isLoading


\* C24 (as stated): while the user is authenticated, every activity event
\* that component k observes cancels its pending warning and forced-logout
\* timers and arms them again, for the full timeout and for promptBefore
\* less; so the forced logout fires no earlier than the full timeout after
\* the last activity, and the warning promptBefore earlier than that.
C24_ActivityRearms ==
  [][\A k \in Components :
       /\ (/\ out'.op = "activity"
           /\ out'.component = k
           /\ out'.event \in ActivityEvents
           /\ state.isAuthenticated)
          => /\ timeoutRef'[k] = time + SESSION_TIMEOUT
             /\ promptRef'[k] = time + SESSION_TIMEOUT - PROMPT_BEFORE
       /\ (out'.op = "timeout" /\ out'.component = k)
          => time >= lastActivityRef[k] + SESSION_TIMEOUT
       /\ (out'.op = "prompt" /\ out'.component = k)
          => /\ time >= lastActivityRef[k] + SESSION_TIMEOUT - PROMPT_BEFORE
             /\ timeoutRef[k] = time + PROMPT_BEFORE]_vars

\* C24 (amended): an activity event that component k observes while the
\* user is authenticated cancels its pending timers and arms them again,
\* for the full timeout and for promptBefore less, unless k is AuthProvider
\* and state.isLoading is true: then both timers are cancelled and none is
\* armed.  The forced logout fires no earlier than the full timeout after
\* the last activity, and the warning promptBefore earlier than that.
C24_ActivityRearmsUnlessLoading ==
  [][\A k \in Components :
       /\ (/\ out'.op = "activity"
           /\ out'.component = k
           /\ out'.event \in ActivityEvents
           /\ state.isAuthenticated)
          => IF k = "AuthProvider" /\ state.isLoading
             THEN timeoutRef'[k] = NoTimer /\ promptRef'[k] = NoTimer
             ELSE /\ timeoutRef'[k] = time + SESSION_TIMEOUT
                  /\ promptRef'[k] = time + SESSION_TIMEOUT - PROMPT_BEFORE
       /\ (out'.op = "timeout" /\ out'.component = k)
          => time >= lastActivityRef[k] + SESSION_TIMEOUT
       /\ (out'.op = "prompt" /\ out'.component = k)
          => /\ time >= lastActivityRef[k] + SESSION_TIMEOUT - PROMPT_BEFORE
             /\ timeoutRef[k] = time + PROMPT_BEFORE]_vars

\* an activity event pushed the provider's armed timers back
C24_Witness ==
  /\ out.op = "activity"
  /\ out.component = "AuthProvider"
  /\ out.event = "click"
  /\ state.isAuthenticated
  /\ time > VALIDATION_COOLDOWN + 1
  /\ timeoutRef["AuthProvider"] = time + SESSION_TIMEOUT
  /\ promptRef["AuthProvider"] = time + SESSION_TIMEOUT - PROMPT_BEFORE

\* C25: after a timer-owning component is torn down none of its timers is
\* pending and none of its listeners is registered, and no warning and no
\* forced logout of a torn-down component fires, whatever activity,
\* visibility and reset events came before and whatever call settles after.
C25_NothingLeftAfterTeardown ==
  /\ \A k \in Components :
       mounted[k] = "gone"
         => /\ timeoutRef[k] = NoTimer
            /\ promptRef[k] = NoTimer
            /\ listeners[k] = {}
  /\ out.op \in {"prompt", "timeout"} => out.mounted = "yes"

\* the provider was torn down with the hook while the timers of both were
\* pending
C25_Witness ==
  /\ out.op = "unmount"
  /\ out.timers = Components
  /\ mounted = [k \in Components |-> "gone"]
  /\ time > VALIDATION_COOLDOWN

\* a validation request of initializeAuth settled, with success, after the
\* provider was torn down
C25_LateWitness ==
  /\ out.op = "initializeAuth"
  /\ out.asked
  /\ out.status = 200
  /\ mounted["AuthProvider"] = "gone"

====
